---- MODULE Spec2Model ----
(***************************************************************************)
(* alltz: the zone registry (src/src/time.rs, TimeZoneManager) and the     *)
(* timeline coordinate functions (src/src/ui/timeline.rs, TimelineWidget). *)
(*                                                                         *)
(* Spec          the registry under add / remove / reorganize, with the    *)
(*               wall clock (Utc::now()) advancing between the calls.      *)
(* SpecTimeline  get_timeline_hours applied to every width.                *)
(* SpecWindow    the visible window and time_to_position.                  *)
(* SpecScan      the daylight-saving scan and the midnight markers.        *)
(* SpecSearch    search_timezones (src/src/time.rs) applied to queries.    *)
(* SpecApp       App::update (src/src/app.rs) applied to messages.         *)
(* SpecRun       run_app (src/src/main.rs), the loop of draw, poll, tick.  *)
(* SpecDialog    App::update applied to the messages of the add dialog.    *)
(* SpecBar       the columns of get_timeline_display and their instants.   *)
(***************************************************************************)
EXTENDS Integers, Sequences, FiniteSets, TLC

VARIABLES
    zones,      \* TimeZoneManager.zones : Vec<TimeZone>
    now,        \* index into Instants: the value Utc::now() returns
    nops,       \* number of registry calls made so far (bounded by MaxOps)
    last,       \* the last registry call: arguments, result, registry before
    prev,       \* the registry call before the last one
    width,      \* SpecTimeline: the render width handed to the widget (u16)
    total_hours, \* SpecTimeline: get_timeline_hours(width) in minutes; -1 before the call
    scrub,      \* TimelineWidget.timeline_position, seconds since 2024-01-01T00:00:00Z
    wzone,      \* TimelineWidget.timezone.tz
    tl_start,   \* get_timeline_start(width), -1 before the call
    tl_end,     \* get_timeline_end(width), -1 before the call
    probes,     \* the last two time_to_position calls: <<[t, col]>>, latest last
                \* (SpecBar: the last column of the bar, <<[t, col, i]>>)
    detected,   \* the last detect_dst_transition call: <<[t, res]>>
    dst_scan,   \* get_dst_transitions_in_range: [done, events]
    midnights,  \* get_midnight_markers_in_range: [done, markers]
    query,      \* SpecSearch: the text handed to search_timezones
    search_results, \* search_timezones(query): [done, names, scores]
    app,        \* SpecApp: the App
    msg,        \* the last message applied by App::update, and the App before it
    nmsgs,      \* number of messages applied so far (bounded by MaxMsgs)
    run         \* SpecRun: the state of run_app

\* the widget state of SpecWindow and SpecScan
windowVars == <<scrub, wzone, tl_start, tl_end, probes, detected, dst_scan, midnights>>

\* the state of SpecSearch
searchVars == <<query, search_results>>

\* the state of SpecApp
uiVars == <<app, msg, nmsgs, run>>

vars == <<zones, now, nops, last, prev, width, total_hours, windowVars, searchVars, uiVars>>

----------------------------------------------------------------------------
(* Bounds *)

\* registry calls per behaviour
MaxOps == 4

\* time_to_position and detect_dst_transition are tried at the instants that
\* cut the visible window into ProbeParts parts (and around its ends)
ProbeParts == 8

\* the longest query made of QueryChars
QueryLen == 2

\* remove_zone is tried with indices 0 .. Len(zones) + ExtraIndex - 1
ExtraIndex == 1

\* messages applied to the App per behaviour
MaxMsgs == 3

\* messages of the add-zone dialog applied to the App per behaviour
MaxKeys == 7

\* terminal events read by run_app per behaviour
MaxEvents == 2

----------------------------------------------------------------------------
(* Reference data: a sample of cities.json and of the tz database *)

\* CityData rows (name, code, timezone, country), in file order.
Catalog ==
    << [name |-> "UTC",        code |-> "UTC", timezone |-> "UTC",           country |-> "Global"],
       [name |-> "London",     code |-> "LON", timezone |-> "Europe/London", country |-> "UK"],
       [name |-> "Manchester", code |-> "MAN", timezone |-> "Europe/London", country |-> "UK"],
       [name |-> "New York",   code |-> "NYC", timezone |-> "America/New_York", country |-> "USA"] >>

\* The names a caller passes to add_timezone_by_name_with_merging.
Names == {"UTC", "London", "london", "Manchester", "New York", "Atlantis"}

\* str::to_ascii_lowercase on the strings in use.
AsciiLower(s) ==
    CASE s = "UTC"        -> "utc"
      [] s = "London"     -> "london"
      [] s = "Manchester" -> "manchester"
      [] s = "New York"   -> "new york"
      [] s = "Atlantis"   -> "atlantis"
      [] OTHER            -> s

\* str::eq_ignore_ascii_case
EqIgnoreAsciiCase(a, b) == AsciiLower(a) = AsciiLower(b)

\* Standard UTC offset in seconds and whether the zone observes summer
\* time; the domain is the set of ids Tz::from_str accepts.
TzTable ==
    [ t \in {"UTC", "Europe/London", "America/New_York", "America/Toronto", "Asia/Tokyo",
             "Europe/Oslo", "Europe/Lisbon", "Europe/Rome", "Europe/Berlin"} |->
        CASE t = "UTC"              -> [std |-> 0,      dst |-> FALSE]
          [] t = "Europe/London"    -> [std |-> 0,      dst |-> TRUE]
          [] t = "America/New_York" -> [std |-> -18000, dst |-> TRUE]
          [] t = "America/Toronto"  -> [std |-> -18000, dst |-> TRUE]
          [] t = "Asia/Tokyo"       -> [std |-> 32400,  dst |-> FALSE]
          [] t = "Europe/Oslo"      -> [std |-> 3600,   dst |-> TRUE]
          [] t = "Europe/Lisbon"    -> [std |-> 0,      dst |-> TRUE]
          [] t = "Europe/Rome"      -> [std |-> 3600,   dst |-> TRUE]
          [] t = "Europe/Berlin"    -> [std |-> 3600,   dst |-> TRUE] ]

\* Tz::from_str(..).is_ok()
TzFromStrOk(t) == t \in DOMAIN TzTable

\* The instants Utc::now() takes, in increasing order: seconds since the
\* epoch of the model and whether (northern) summer time is in force.
Instants ==
    << [utc |-> 1254840,  summer |-> FALSE],    \* 15 Jan 12:34
       [utc |-> 16893240, summer |-> TRUE],     \* 15 Jul 12:34
       [utc |-> 32790840, summer |-> FALSE] >>  \* 15 Jan 12:34, a year on

----------------------------------------------------------------------------
(* chrono / chrono_tz *)

\* integer division of Rust's i32: truncates toward zero
TruncDiv(a, b) == IF a >= 0 THEN a \div b ELSE -((-a) \div b)

\* now.with_timezone(&tz).offset().fix().local_minus_utc()
LocalMinusUtc(tz, i) ==
    TzTable[tz].std + (IF TzTable[tz].dst /\ Instants[i].summer THEN 3600 ELSE 0)

\* now.with_timezone(&tz).hour()
Hour(tz, i) == ((Instants[i].utc + LocalMinusUtc(tz, i)) \div 3600) % 24

\* now.with_timezone(&tz).minute()
Minute(tz, i) == ((Instants[i].utc + LocalMinusUtc(tz, i)) \div 60) % 60

\* TimeZone::utc_offset_hours
utc_offset_hours(z, i) == TruncDiv(LocalMinusUtc(z.tz, i), 3600)

\* the comparison of add_timezone_by_name_with_merging and
\* reorganize_zones_for_merge: same hour, same minute, same offset
SameTime(tzA, tzB, i) ==
    /\ Hour(tzA, i) = Hour(tzB, i)
    /\ Minute(tzA, i) = Minute(tzB, i)
    /\ LocalMinusUtc(tzA, i) = LocalMinusUtc(tzB, i)

----------------------------------------------------------------------------
(* TimeZone *)

\* TimeZone::new
NewTimeZone(tz, display_name) == [tz |-> tz, display_name |-> display_name, cities |-> <<>>]

Contains(s, x) == \E k \in 1..Len(s) : s[k] = x

\* TimeZone::add_city
add_city(z, city) ==
    IF Contains(z.cities, city) THEN z
    ELSE [z EXCEPT !.cities = Append(z.cities, city)]

\* Iterator::find / iter_mut().find over a vector, given the set K of the
\* (1-based) indices whose element satisfies the closure: the first of them,
\* 0 when there is none
FindFirst(K) ==
    IF K = {} THEN 0 ELSE CHOOSE k \in K : \A j \in K : k <= j

\* mutant: an unstable sort, an element goes before its equals
RECURSIVE InsertByKey_BeforeEquals(_, _, _)
InsertByKey_BeforeEquals(s, z, i) ==
    IF s = <<>> THEN <<z>>
    ELSE IF utc_offset_hours(s[Len(s)], i) < utc_offset_hours(z, i)
         THEN Append(s, z)
         ELSE Append(InsertByKey_BeforeEquals(SubSeq(s, 1, Len(s) - 1), z, i), s[Len(s)])

\* slice::sort_by_key(|tz| tz.utc_offset_hours()): a stable sort
RECURSIVE InsertByKey(_, _, _)
InsertByKey(s, z, i) ==
    IF s = <<>> THEN <<z>>
    ELSE IF utc_offset_hours(s[Len(s)], i) <= utc_offset_hours(z, i)
         THEN Append(s, z)
         ELSE Append(InsertByKey(SubSeq(s, 1, Len(s) - 1), z, i), s[Len(s)])

RECURSIVE SortByOffset(_, _)
SortByOffset(s, i) ==
    IF s = <<>> THEN <<>>
    ELSE InsertByKey(SortByOffset(SubSeq(s, 1, Len(s) - 1), i), s[Len(s)], i)

----------------------------------------------------------------------------
(* TimeZoneManager *)

\* TimeZoneManager::add_zone
add_zone(zs, z, i) == SortByOffset(Append(zs, z), i)

\* add_timezone_by_name_with_merging once the catalog row c is found and its
\* timezone parsed: join the entry of that timezone id, else (policy on) the
\* first entry showing the same time, else create an entry
AddFoundCity(zs, city, merge_same_time, i) ==
    LET tz    == city.timezone
        exact == FindFirst({k \in 1..Len(zs) : zs[k].tz = tz})
        same  == FindFirst({k \in 1..Len(zs) : SameTime(tz, zs[k].tz, i)})
    IN  IF exact # 0
        THEN [zones |-> [zs EXCEPT ![exact] = add_city(zs[exact], city.name)],
              ret |-> TRUE]
        ELSE IF merge_same_time /\ same # 0
        THEN [zones |-> [zs EXCEPT ![same] = add_city(zs[same], city.name)],
              ret |-> TRUE]
        ELSE [zones |-> add_zone(zs, add_city(NewTimeZone(tz, city.code), city.name), i),
              ret |-> TRUE]

\* the same for row c of Catalog
AddFound(zs, c, merge_same_time, i) == AddFoundCity(zs, Catalog[c], merge_same_time, i)

\* the catalog lookup of add_timezone_by_name_with_merging: index of the
\* first row whose name equals `name` ignoring ASCII case, 0 when none
FindCity(name) == FindFirst({k \in 1..Len(Catalog) : EqIgnoreAsciiCase(Catalog[k].name, name)})
\* mutant: the merge-by-time scan runs whatever the policy
add_timezone_by_name_with_merging_AlwaysMerge(zs, name, merge_same_time, i) ==
    LET c == FindCity(name)
    IN  IF c = 0 \/ ~TzFromStrOk(Catalog[c].timezone)
        THEN [zones |-> zs, ret |-> FALSE]
        ELSE AddFound(zs, c, TRUE, i)

\* mutant: an unknown name falls back to the first catalog row
add_timezone_by_name_with_merging_Fallback(zs, name, merge_same_time, i) ==
    LET c == FindCity(name)
    IN  IF c = 0
        THEN AddFound(zs, 1, merge_same_time, i)
        ELSE AddFound(zs, c, merge_same_time, i)

\* TimeZoneManager::add_timezone_by_name_with_merging; the result is the
\* new zones vector and the returned bool
add_timezone_by_name_with_merging(zs, name, merge_same_time, i) ==
    LET c == FindCity(name)
    IN  IF c = 0 \/ ~TzFromStrOk(Catalog[c].timezone)
        THEN [zones |-> zs, ret |-> FALSE]
        ELSE AddFound(zs, c, merge_same_time, i)

\* mutant: the index is taken as one-based
RemoveAt_OneBased(s, index) == SubSeq(s, 1, index - 1) \o SubSeq(s, index + 1, Len(s))

\* Vec::remove(index) on 0-based index
RemoveAt(s, index) == SubSeq(s, 1, index) \o SubSeq(s, index + 2, Len(s))

\* TimeZoneManager::remove_zone; ret is <<>> for None, <<zone>> for Some(zone)
remove_zone(zs, index) ==
    IF index < Len(zs)
    THEN [zones |-> RemoveAt(zs, index), ret |-> <<zs[index + 1]>>]
    ELSE [zones |-> zs, ret |-> <<>>]

\* mutant: the cities of a coalesced entry are dropped
add_cities_Dropped(z, cities) == z

\* add every city of `cities` to z, in order
RECURSIVE add_cities(_, _)
add_cities(z, cities) ==
    IF cities = <<>> THEN z
    ELSE add_cities(add_city(z, Head(cities)), Tail(cities))

\* mutant: entries are coalesced by timezone id only, the same-time branch
\* is missing
RECURSIVE MergeLoop_TzOnly(_, _, _)
MergeLoop_TzOnly(new_zones, rest, i) ==
    IF rest = <<>> THEN new_zones
    ELSE
    LET zone  == Head(rest)
        exact == FindFirst({k \in 1..Len(new_zones) : new_zones[k].tz = zone.tz})
        nz    == IF exact # 0
                 THEN [new_zones EXCEPT ![exact] = add_cities(new_zones[exact], zone.cities)]
                 ELSE Append(new_zones, zone)
    IN  MergeLoop_TzOnly(nz, Tail(rest), i)

\* the merge branch of reorganize_zones_for_merge: the loop over self.zones
RECURSIVE MergeLoop(_, _, _)
MergeLoop(new_zones, rest, i) ==
    IF rest = <<>> THEN new_zones
    ELSE
    LET zone  == Head(rest)
        exact == FindFirst({k \in 1..Len(new_zones) : new_zones[k].tz = zone.tz})
        same  == FindFirst({k \in 1..Len(new_zones) : SameTime(zone.tz, new_zones[k].tz, i)})
        nz    == IF exact # 0
                 THEN [new_zones EXCEPT ![exact] = add_cities(new_zones[exact], zone.cities)]
                 ELSE IF same # 0
                 THEN [new_zones EXCEPT ![same] = add_cities(new_zones[same], zone.cities)]
                 ELSE Append(new_zones, zone)
    IN  MergeLoop(nz, Tail(rest), i)

\* the split branch, inner loop: the cities of one multi-city zone
RECURSIVE SplitCities(_, _)
SplitCities(new_zones, cities) ==
    IF cities = <<>> THEN new_zones
    ELSE
    LET city == Head(cities)
        c    == FindFirst({k \in 1..Len(Catalog) : Catalog[k].name = city})
        nz   == IF c = 0 \/ ~TzFromStrOk(Catalog[c].timezone)
                THEN new_zones
                ELSE LET tz    == Catalog[c].timezone
                         exact == FindFirst({k \in 1..Len(new_zones) : new_zones[k].tz = tz})
                     IN  IF exact # 0
                         THEN [new_zones EXCEPT ![exact] = add_city(new_zones[exact], city)]
                         ELSE Append(new_zones,
                                     add_city(NewTimeZone(tz, Catalog[c].code), city))
    IN  SplitCities(nz, Tail(cities))

\* mutant: an entry of two cities is still kept as it is
RECURSIVE SplitLoop_KeepPairs(_, _)
SplitLoop_KeepPairs(new_zones, rest) ==
    IF rest = <<>> THEN new_zones
    ELSE
    LET zone == Head(rest)
        nz   == IF Len(zone.cities) <= 2
                THEN Append(new_zones, zone)
                ELSE SplitCities(new_zones, zone.cities)
    IN  SplitLoop_KeepPairs(nz, Tail(rest))

\* the split branch, outer loop over self.zones
RECURSIVE SplitLoop(_, _)
SplitLoop(new_zones, rest) ==
    IF rest = <<>> THEN new_zones
    ELSE
    LET zone == Head(rest)
        nz   == IF Len(zone.cities) <= 1
                THEN Append(new_zones, zone)
                ELSE SplitCities(new_zones, zone.cities)
    IN  SplitLoop(nz, Tail(rest))

\* TimeZoneManager::reorganize_zones_for_merge
reorganize_zones_for_merge(zs, merge_same_time, i) ==
    SortByOffset(IF merge_same_time THEN MergeLoop(<<>>, zs, i) ELSE SplitLoop(<<>>, zs), i)

----------------------------------------------------------------------------
(* The registry as a state machine *)

\* history of the calls made on the registry, kept for the properties only:
\* the value of `last` and `prev` before any call
NoCall == [op |-> "none", name |-> "", merge |-> FALSE, index |-> 0,
           at |-> 0, pre |-> <<>>, ret |-> <<>>]

\* TimeZoneManager::new
\* no widget call made yet
WidgetIdle ==
    /\ tl_start = -1
    /\ tl_end = -1
    /\ probes = <<>>
    /\ detected = <<>>
    /\ dst_scan = [done |-> FALSE, events |-> <<>>]
    /\ midnights = [done |-> FALSE, markers |-> <<>>]

\* no search made yet
SearchIdle ==
    /\ query = <<>>
    /\ search_results = [done |-> FALSE, names |-> <<>>, scores |-> <<>>]

\* no App constructed
UiIdle ==
    /\ app = <<>>
    /\ msg = <<>>
    /\ nmsgs = 0
    /\ run = <<>>

Init ==
    /\ zones = <<>>
    /\ now = 1
    /\ nops = 0
    /\ last = NoCall
    /\ prev = NoCall
    /\ width = 0
    /\ total_hours = -1
    /\ scrub = 0
    /\ wzone = "UTC"
    /\ WidgetIdle
    /\ SearchIdle
    /\ UiIdle

\* history: `call` becomes the last call
Record(call) ==
    /\ prev' = last
    /\ last' = call
    /\ nops' = nops + 1

\* a call of add_timezone_by_name_with_merging(name, merge_same_time)
AddCity ==
    /\ nops < MaxOps
    /\ \E name \in Names, m \in BOOLEAN :
         LET r == add_timezone_by_name_with_merging(zones, name, m, now)
         IN  /\ zones' = r.zones
             /\ Record([op |-> "add", name |-> name, merge |-> m, index |-> 0,
                        at |-> now, pre |-> zones, ret |-> <<r.ret>>])
    /\ UNCHANGED <<now, width, total_hours, windowVars, uiVars, searchVars>>

\* a call of remove_zone(index)
Remove ==
    /\ nops < MaxOps
    /\ \E index \in 0..(Len(zones) + ExtraIndex - 1) :
         LET r == remove_zone(zones, index)
         IN  /\ zones' = r.zones
             /\ Record([op |-> "remove", name |-> "", merge |-> FALSE, index |-> index,
                        at |-> now, pre |-> zones, ret |-> r.ret])
    /\ UNCHANGED <<now, width, total_hours, windowVars, uiVars, searchVars>>

\* a call of reorganize_zones_for_merge(merge_same_time)
Reorganize ==
    /\ nops < MaxOps
    /\ \E m \in BOOLEAN :
         /\ zones' = reorganize_zones_for_merge(zones, m, now)
         /\ Record([op |-> "reorganize", name |-> "", merge |-> m, index |-> 0,
                    at |-> now, pre |-> zones, ret |-> <<>>])
    /\ UNCHANGED <<now, width, total_hours, windowVars, uiVars, searchVars>>

\* the wall clock moves on between two calls (a call reads Utc::now() several
\* times, within microseconds: it is taken at one instant)
Advance ==
    /\ now < Len(Instants)
    /\ now' = now + 1
    /\ UNCHANGED <<zones, nops, last, prev, width, total_hours, windowVars, uiVars, searchVars>>

Next == AddCity \/ Remove \/ Reorganize \/ Advance

Spec == Init /\ [][Next]_vars

----------------------------------------------------------------------------
(* Registry properties *)

Range(s) == {s[k] : k \in 1..Len(s)}

Count(s, x) == Cardinality({k \in 1..Len(s) : s[k] = x})

\* a and b hold the same elements the same number of times
SameBag(a, b) ==
    /\ Len(a) = Len(b)
    /\ \A x \in Range(a) \cup Range(b) : Count(a, x) = Count(b, x)

InCatalog(name) == \E k \in 1..Len(Catalog) : EqIgnoreAsciiCase(Catalog[k].name, name)

\* the catalog row a name denotes
CityOf(name) ==
    Catalog[CHOOSE k \in 1..Len(Catalog) :
              /\ EqIgnoreAsciiCase(Catalog[k].name, name)
              /\ \A j \in 1..(k - 1) : ~EqIgnoreAsciiCase(Catalog[j].name, name)]

\* the wall-clock reading of a zone at instant i
Reading(tz, i) == <<Hour(tz, i), Minute(tz, i), LocalMinusUtc(tz, i)>>

\* the call returned true, Some(entry) or, for reorganize, at all
Succeeded(call) ==
    \/ call.op = "add" /\ call.ret = <<TRUE>>
    \/ call.op = "remove" /\ call.ret # <<>>
    \/ call.op = "reorganize"

\* C1: after any sequence of add, remove and reorganize calls the registry
\* never holds two entries with the same timezone id.
C1_UniqueTimezoneIds ==
    \A a, b \in 1..Len(zones) : a # b => zones[a].tz # zones[b].tz

\* C2: adding two different cities of the same catalog timezone id, one call
\* after the other with any merge policy, leaves exactly one entry that has
\* both as members, and the second call does not add an entry.
C2_SameTimezoneSharesEntry ==
    ( /\ prev.op = "add" /\ last.op = "add"
      /\ InCatalog(prev.name) /\ InCatalog(last.name)
      /\ CityOf(prev.name).name # CityOf(last.name).name
      /\ CityOf(prev.name).timezone = CityOf(last.name).timezone )
    => /\ Cardinality({k \in 1..Len(zones) :
                         /\ Contains(zones[k].cities, CityOf(prev.name).name)
                         /\ Contains(zones[k].cities, CityOf(last.name).name)}) = 1
       /\ Len(zones) = Len(last.pre)

\* C3: when a call that changed the registry returns, adjacent entries are in
\* ascending order of utc_offset_hours evaluated at the instant of that call.
C3_SortedAfterMutation ==
    (Succeeded(last) /\ zones # last.pre) =>
        \A k \in 1..(Len(zones) - 1) :
            utc_offset_hours(zones[k], last.at) <= utc_offset_hours(zones[k + 1], last.at)

\* C4: after reorganize_zones_for_merge(true) no two entries share a timezone
\* id or a current wall-clock reading, and entries that showed the same time
\* before the call have all their cities in one entry.
C4_MergeIsMinimal ==
    (last.op = "reorganize" /\ last.merge) =>
        /\ \A a, b \in 1..Len(zones) : a # b =>
              /\ zones[a].tz # zones[b].tz
              /\ Reading(zones[a].tz, last.at) # Reading(zones[b].tz, last.at)
        /\ \A p, q \in 1..Len(last.pre) :
              Reading(last.pre[p].tz, last.at) = Reading(last.pre[q].tz, last.at) =>
                  \E k \in 1..Len(zones) :
                      Range(last.pre[p].cities) \cup Range(last.pre[q].cities)
                          \subseteq Range(zones[k].cities)

\* witness of C4: two entries of different timezone ids showing the same time
\* were coalesced
C4_Witness ==
    /\ last.op = "reorganize" /\ last.merge
    /\ Len(zones) < Len(last.pre)
    /\ \E p, q \in 1..Len(last.pre) :
          /\ last.pre[p].tz # last.pre[q].tz
          /\ Reading(last.pre[p].tz, last.at) = Reading(last.pre[q].tz, last.at)

\* the registry seen as timezone id plus set of member cities
View(z) == [tz |-> z.tz, cities |-> Range(z.cities)]

\* the catalog timezone id of a member city
CatalogTz(city) == CityOf(city).timezone

\* what reorganize_zones_for_merge(false) is said to turn entry k into: itself when it has at most one city, else one entry per
\* catalog timezone id T among its cities
SplitTags(pre) ==
    {t \in (1..Len(pre)) \X DOMAIN TzTable :
        IF Len(pre[t[1]].cities) <= 1
        THEN t[2] = pre[t[1]].tz
        ELSE \E c \in Range(pre[t[1]].cities) : CatalogTz(c) = t[2]}

SplitItem(pre, t) ==
    IF Len(pre[t[1]].cities) <= 1
    THEN View(pre[t[1]])
    ELSE [tz |-> t[2], cities |-> {c \in Range(pre[t[1]].cities) : CatalogTz(c) = t[2]}]

\* C5: reorganize_zones_for_merge(false) replaces every entry of
\* two or more cities by one entry per catalog timezone id among them, each
\* holding exactly the cities of that id, and leaves the other entries as
\* they were.
C5_SplitPerEntry ==
    (last.op = "reorganize" /\ ~last.merge) =>
        /\ Len(zones) = Cardinality(SplitTags(last.pre))
        /\ \A x \in {View(z) : z \in Range(zones)}
                    \cup {SplitItem(last.pre, t) : t \in SplitTags(last.pre)} :
              Cardinality({k \in 1..Len(zones) : View(zones[k]) = x})
                  = Cardinality({t \in SplitTags(last.pre) : SplitItem(last.pre, t) = x})

\* a registry of N entries built from N cities of N different timezone ids
BuiltFromDistinct(zs) ==
    /\ \A k \in 1..Len(zs) :
          /\ Len(zs[k].cities) = 1
          /\ zs[k].tz = CatalogTz(zs[k].cities[1])
    /\ \A a, b \in 1..Len(zs) : a # b => zs[a].tz # zs[b].tz

\* C6: on a registry of N single-city entries of N different timezone ids,
\* reorganize(true) followed by reorganize(false) gives N entries again, one
\* per city, with the timezone ids of before.
C6_MergeSplitRoundTrip ==
    ( /\ prev.op = "reorganize" /\ prev.merge
      /\ last.op = "reorganize" /\ ~last.merge
      /\ BuiltFromDistinct(prev.pre) )
    => /\ Len(zones) = Len(prev.pre)
       /\ \A k \in 1..Len(zones) : Len(zones[k].cities) = 1
       /\ {View(z) : z \in Range(zones)} = {View(z) : z \in Range(prev.pre)}

\* witness of C6: the merge coalesced entries and the split was then applied
C6_Witness ==
    /\ prev.op = "reorganize" /\ prev.merge
    /\ last.op = "reorganize" /\ ~last.merge
    /\ BuiltFromDistinct(prev.pre)
    /\ Len(prev.pre) >= 2
    /\ Len(last.pre) < Len(prev.pre)

\* the case of C7: a catalog city whose timezone id no entry has
C7_Case ==
    /\ last.op = "add" /\ InCatalog(last.name)
    /\ \A k \in 1..Len(last.pre) : last.pre[k].tz # CityOf(last.name).timezone

\* the entries showing the new city's wall-clock reading when add was called
C7_SameReading ==
    {k \in 1..Len(last.pre) :
        Reading(last.pre[k].tz, last.at) = Reading(CityOf(last.name).timezone, last.at)}

C7_First == CHOOSE k \in C7_SameReading : \A j \in C7_SameReading : k <= j

\* exactly one entry was created, holding only the new city
C7_OneNewEntry ==
    /\ Len(zones) = Len(last.pre) + 1
    /\ \E k \in 1..Len(zones) :
          /\ zones[k].tz = CityOf(last.name).timezone
          /\ zones[k].cities = <<CityOf(last.name).name>>
          /\ SameBag(RemoveAt(zones, k - 1), last.pre)

\* C7 (as claimed): with the policy on and an entry showing the same hour,
\* minute and offset, the city is appended to the first such entry and no
\* entry is created; otherwise one new single-city entry is created; add
\* returns true.
C7_AppendOrCreate ==
    C7_Case =>
        /\ last.ret = <<TRUE>>
        /\ IF last.merge /\ C7_SameReading # {}
           THEN zones = [last.pre EXCEPT ![C7_First].cities =
                                             Append(@, CityOf(last.name).name)]
           ELSE C7_OneNewEntry

\* C7 (amended): as claimed, except that a city that is already a member of
\* the first entry showing the same time is not appended a second time: the
\* registry is then left as it was.
C7_AppendOnceOrCreate ==
    C7_Case =>
        /\ last.ret = <<TRUE>>
        /\ IF last.merge /\ C7_SameReading # {}
           THEN zones = [last.pre EXCEPT ![C7_First].cities =
                            IF Contains(@, CityOf(last.name).name)
                            THEN @ ELSE Append(@, CityOf(last.name).name)]
           ELSE C7_OneNewEntry

\* witness of C7: the city joined an entry by wall-clock time, past an entry
\* showing another time
C7_Witness ==
    /\ C7_Case /\ last.merge
    /\ C7_SameReading # {}
    /\ C7_First >= 2
    /\ ~Contains(last.pre[C7_First].cities, CityOf(last.name).name)
    /\ Len(zones[C7_First].cities) = Len(last.pre[C7_First].cities) + 1

\* witness of C7, policy off: an entry shows the same time and a new entry is
\* created all the same
C7_WitnessPolicyOff ==
    /\ C7_Case /\ ~last.merge
    /\ C7_SameReading # {}
    /\ Len(zones) = Len(last.pre) + 1

\* C8: add with a name that matches no catalog city returns false and leaves
\* the registry as it was.
C8_UnknownNameNoMutation ==
    (last.op = "add" /\ ~InCatalog(last.name)) =>
        /\ last.ret = <<FALSE>>
        /\ zones = last.pre

\* witness of C8: an unknown name was tried on a registry with entries
C8_Witness ==
    /\ last.op = "add" /\ ~InCatalog(last.name)
    /\ Len(last.pre) >= 2

\* C9: remove_zone(index) out of range returns None and changes nothing; in
\* range it returns the entry at index, the count drops by one and the other
\* entries keep content and relative order.
C9_RemoveContract ==
    last.op = "remove" =>
        IF last.index >= Len(last.pre)
        THEN /\ last.ret = <<>>
             /\ zones = last.pre
        ELSE /\ last.ret = <<last.pre[last.index + 1]>>
             /\ Len(zones) = Len(last.pre) - 1
             /\ \A k \in 1..Len(zones) :
                   zones[k] = IF k <= last.index THEN last.pre[k] ELSE last.pre[k + 1]

\* witness of C9: an entry in the middle of the registry was removed
C9_Witness ==
    /\ last.op = "remove"
    /\ last.index >= 1 /\ last.index + 1 < Len(last.pre)
    /\ last.ret # <<>>

\* witness of C9, out of range: remove_zone returned None on a registry with entries
C9_WitnessOutOfRange ==
    /\ last.op = "remove"
    /\ last.index >= Len(last.pre) /\ Len(last.pre) >= 1

----------------------------------------------------------------------------
(* TimelineWidget: the adaptive window *)

\* u16::MAX, the largest render width
MaxWidth == 65535

OPTIMAL_CHARS_PER_HOUR == 2
MIN_HOURS == 48
MAX_HOURS == 168

\* f64::clamp
Clamp(x, lo, hi) == IF x < lo THEN lo ELSE IF x > hi THEN hi ELSE x

\* mutant: the width is halved in integer arithmetic before the conversion
\* to hours (unit as in get_timeline_hours)
get_timeline_hours_WholeColumns(w) ==
    Clamp(60 * (w \div OPTIMAL_CHARS_PER_HOUR), 60 * MIN_HOURS, 60 * MAX_HOURS)

\* TimelineWidget::get_timeline_hours.  The f64 number of hours is held as
\* its exact number of minutes: width / 2.0 hours is 60 * width / 2 minutes,
\* an integer for every width, so no rounding is lost.
get_timeline_hours(w) ==
    Clamp((60 * w) \div OPTIMAL_CHARS_PER_HOUR, 60 * MIN_HOURS, 60 * MAX_HOURS)

InitTimeline ==
    /\ zones = <<>>
    /\ now = 1
    /\ nops = 0
    /\ last = NoCall
    /\ prev = NoCall
    /\ width \in 0..MaxWidth
    /\ total_hours = -1
    /\ scrub = 0
    /\ wzone = "UTC"
    /\ WidgetIdle
    /\ SearchIdle
    /\ UiIdle

\* the widget is asked for the window length of its width
GetTimelineHours ==
    /\ total_hours = -1
    /\ total_hours' = get_timeline_hours(width)
    /\ UNCHANGED <<zones, now, nops, last, prev, width, windowVars, uiVars, searchVars>>

NextTimeline == GetTimelineHours

SpecTimeline == InitTimeline /\ [][NextTimeline]_vars

\* C10: get_timeline_hours(w) is 48 h up to width 96, w / 2 h from 96 to 336
\* and 168 h from 336 on, hence always within 48..168 h (total_hours is in
\* minutes).
C10_HoursForWidth ==
    total_hours # -1 =>
        /\ width <= 96 => total_hours = 48 * 60
        /\ (96 <= width /\ width <= 336) => 2 * total_hours = width * 60
        /\ width >= 336 => total_hours = 168 * 60
        /\ 48 * 60 <= total_hours /\ total_hours <= 168 * 60

\* witness of C10: an odd width between the two clamps, 201 columns for 100.5 h
C10_Witness ==
    /\ width = 201
    /\ total_hours = 6030

----------------------------------------------------------------------------
(* TimelineWidget: the visible window and the column of an instant *)

\* Instants are whole seconds since 2024-01-01T00:00:00Z; a width is a u16.

\* the render widths tried: narrow, the clamp ends' neighbours, odd and even
Widths == {0, 1, 2, 3, 80, 97, 100, 120, 200, 201, 337, 400}

\* the scrub instants (timeline_position) tried
Scrubs ==
    { 14 * 86400 + 12 * 3600,           \* 15 Jan 12:00:00
      14 * 86400,                       \* 15 Jan 00:00:00
      68 * 86400 + 5 * 3600,            \*  9 Mar 05:00:00
      68 * 86400 + 6 * 3600 + 1800,     \*  9 Mar 06:30:00
      69 * 86400 + 6 * 3600 + 1815,     \* 10 Mar 06:30:15
      69 * 86400 + 7 * 3600,            \* 10 Mar 07:00:00
      70 * 86400 + 5 * 3600,            \* 11 Mar 05:00:00
      306 * 86400 + 20 * 3600 + 59,     \*  2 Nov 20:00:59
      307 * 86400 + 4 * 3600 + 1800,    \*  3 Nov 04:30:00
      307 * 86400 + 5 * 3600 + 900,     \*  3 Nov 05:15:00
      307 * 86400 + 6 * 3600 }          \*  3 Nov 06:00:00

\* Duration::minutes((hours_before * 60.0) as i64) in seconds, with the hours
\* cut to a whole number before the conversion to minutes
HalfWindow_WholeHours(w) == 60 * (60 * ((get_timeline_hours(w) \div 2) \div 60))

\* Duration::minutes((hours_before * 60.0) as i64) in seconds, where
\* hours_before = total_hours / 2.0: the cast cuts a fraction of a minute
HalfWindow(w) == 60 * (get_timeline_hours(w) \div 2)

\* TimelineWidget::get_timeline_start
get_timeline_start(position, w) == position - HalfWindow(w)

\* TimelineWidget::get_timeline_end
get_timeline_end(position, w) == position + HalfWindow(w)

\* u16::saturating_sub
SaturatingSub(a, b) == IF a >= b THEN a - b ELSE 0

Min(a, b) == IF a <= b THEN a ELSE b

RECURSIVE Gcd(_, _)
Gcd(a, b) == IF b = 0 THEN a ELSE Gcd(b, a % b)

RECURSIVE IsPowerOfTwo(_)
IsPowerOfTwo(n) == n = 1 \/ (n > 1 /\ n % 2 = 0 /\ IsPowerOfTwo(n \div 2))

\* whether the f64 quotient a / b (0 <= a, 0 < b, both far below 2^53) is
\* the exact ratio: its reduced denominator is a power of two
ExactQuotient(a, b) == IsPowerOfTwo(b \div Gcd(a, b))

\* ((a / b) * w).round() as u16 with a cast that wraps: -1.0 gives 65535
RoundedColumn_Wrapping(a, b, w) ==
    IF a < 0 THEN {(MaxWidth + 1 - (((2 * (-a) * w + b) \div (2 * b)) % (MaxWidth + 1))) % (MaxWidth + 1)}
    ELSE {Min((2 * a * w + b) \div (2 * b), MaxWidth)}

\* ((a / b) * w) as u16 without the round: the cast cuts the fraction
RoundedColumn_Truncating(a, b, w) ==
    IF a < 0 THEN {0} ELSE {Min((a * w) \div b, MaxWidth)}

\* the values ((a / b) * w).round() as u16 can take, for b > 0. f64::round
\* rounds half away from zero and the cast saturates (a negative value gives
\* 0). Where the exact product lies half way between two columns and the
\* quotient was rounded, the f64 product may fall on either side. The
\* quotient a / b is taken in lowest terms n / d.
RoundedColumn(a, b, w) ==
    IF a < 0 THEN {0}
    ELSE LET n   == a \div Gcd(a, b)
             d   == b \div Gcd(a, b)
             up  == (2 * n * w + d) \div (2 * d)
             tie == (2 * n * w + d) % (2 * d) = 0
         IN  IF tie /\ ~ExactQuotient(a, b)
             THEN {Min(up - 1, MaxWidth), Min(up, MaxWidth)}
             ELSE {Min(up, MaxWidth)}

\* time_to_position without the final position.min(width.saturating_sub(1))
time_to_position_NoClamp(position, time, w) ==
    LET start          == get_timeline_start(position, w)
        end            == get_timeline_end(position, w)
        total_duration == end - start
        time_duration  == time - start
    IN  IF total_duration = 0 THEN {0}
        ELSE RoundedColumn(time_duration, total_duration, w)

\* TimelineWidget::time_to_position: the set of columns it can return
time_to_position(position, time, w) ==
    LET start          == get_timeline_start(position, w)
        end            == get_timeline_end(position, w)
        total_duration == end - start
        time_duration  == time - start
    IN  IF total_duration = 0 THEN {0}
        ELSE {Min(p, SaturatingSub(w, 1)) : p \in RoundedColumn(time_duration, total_duration, w)}

\* the instants handed to time_to_position and detect_dst_transition: the
\* cuts of the window into ProbeParts parts, two cuts before it and two after
\* it, the scrub instant, the seconds next to the window's ends, and the
\* sixths of the window (a / b = 1/6 is not an f64, and for a width that is
\* an odd multiple of 3 the product lies half way between two columns)
ProbeInstants(position, w) ==
    LET start == get_timeline_start(position, w)
        end   == get_timeline_end(position, w)
    IN  {start + (j * (end - start)) \div ProbeParts : j \in 0..ProbeParts}
        \cup {start - (j * (end - start)) \div ProbeParts : j \in 1..2}
        \cup {end + (j * (end - start)) \div ProbeParts : j \in 1..2}
        \cup {position, start - 1, start + 1, end - 1, end + 1}
        \cup {start + (j * (end - start)) \div 6 : j \in 1..5}

InitWindow ==
    /\ zones = <<>> /\ now = 1 /\ nops = 0 /\ last = NoCall /\ prev = NoCall
    /\ total_hours = -1
    /\ width \in Widths
    /\ scrub \in Scrubs
    /\ wzone = "UTC"
    /\ WidgetIdle
    /\ SearchIdle
    /\ UiIdle

\* get_timeline_start and get_timeline_end for the widget's width
GetWindow ==
    /\ tl_start = -1
    /\ tl_start' = get_timeline_start(scrub, width)
    /\ tl_end' = get_timeline_end(scrub, width)
    /\ UNCHANGED <<zones, now, nops, last, prev, width, total_hours, searchVars, uiVars,
                   scrub, wzone, probes, detected, dst_scan, midnights>>

\* time_to_position(t, width); the last two calls are kept. The function is
\* deterministic: a second call with the same instant returns the same column
TimeToPosition ==
    \E t \in ProbeInstants(scrub, width) :
        \E col \in time_to_position(scrub, t, width) :
            /\ \A k \in 1..Len(probes) : probes[k].t = t => probes[k].col = col
            /\ probes' = (IF probes = <<>> THEN <<>> ELSE <<probes[Len(probes)]>>)
                            \o <<[t |-> t, col |-> col]>>
            /\ UNCHANGED <<zones, now, nops, last, prev, width, total_hours, searchVars, uiVars,
                           scrub, wzone, tl_start, tl_end, detected, dst_scan, midnights>>

NextWindow == GetWindow \/ TimeToPosition

SpecWindow == InitWindow /\ [][NextWindow]_vars

\* C11: the visible window is symmetric around the scrub instant, and its
\* length is exactly clamp(width / 2, 48, 168) hours: (end - start) seconds
\* = 1800 * width clamped to 96..336, nothing lost for odd widths
C11_WindowSymmetricExact == tl_start # -1 =>
    /\ scrub - tl_start = tl_end - scrub
    /\ tl_end - tl_start = 1800 * (IF width < 96 THEN 96 ELSE IF width > 336 THEN 336 ELSE width)

\* an odd width between the clamp ends: 201 columns show 100.5 hours
C11_Witness ==
    /\ width = 201
    /\ tl_start # -1
    /\ tl_end - tl_start = 361800

\* C12: for a fixed window, time_to_position is monotonic non-decreasing:
\* of two calls with instants t1 <= t2 the first returns a column no greater
\* than the second
C12_PositionMonotonic ==
    Len(probes) = 2 =>
        /\ probes[1].t <= probes[2].t => probes[1].col <= probes[2].col
        /\ probes[2].t <= probes[1].t => probes[2].col <= probes[1].col

\* an instant before the window's start followed by a later one in a later column
C12_Witness ==
    /\ Len(probes) = 2
    /\ probes[1].t < get_timeline_start(scrub, width)
    /\ probes[1].t < probes[2].t
    /\ probes[1].col < probes[2].col

\* C13: for a width >= 1, time_to_position of any instant (in the window,
\* before its start, after its end) is a column in 0 .. width - 1, the start
\* maps to 0 and the end to width - 1; for width 0 the result is 0
C13_ColumnInRange ==
    \A k \in 1..Len(probes) :
        /\ width >= 1 => (0 <= probes[k].col /\ probes[k].col <= width - 1)
        /\ (width >= 1 /\ probes[k].t = get_timeline_start(scrub, width)) => probes[k].col = 0
        /\ (width >= 1 /\ probes[k].t = get_timeline_end(scrub, width)) => probes[k].col = width - 1
        /\ width = 0 => probes[k].col = 0

\* an instant after the end of a 100-column window is put in column 99
C13_Witness ==
    /\ width = 100
    /\ Len(probes) >= 1
    /\ probes[Len(probes)].t > get_timeline_end(scrub, width)
    /\ probes[Len(probes)].col = 99

\* the width-0 case of C13
C13_WitnessWidthZero ==
    /\ width = 0
    /\ Len(probes) >= 1
    /\ probes[Len(probes)].col = 0

\* C14: for a width >= 2 the scrub instant maps to the middle column
\* min(round(width / 2), width - 1), halves rounded up
C14_ScrubInMiddle ==
    \A k \in 1..Len(probes) :
        (width >= 2 /\ probes[k].t = scrub) =>
            probes[k].col = Min((width + 1) \div 2, width - 1)

\* column 50 for width 100
C14_Witness ==
    /\ width = 100
    /\ Len(probes) >= 1
    /\ probes[Len(probes)].t = scrub
    /\ probes[Len(probes)].col = 50

----------------------------------------------------------------------------
(* TimelineWidget: daylight-saving transitions and midnight markers *)

\* The tz database for 2024, for the zones the widget is tried with: the
\* standard offset in seconds and, where summer time (one hour ahead) is
\* observed, the UTC instants at which it starts and ends.
\*   US/Eastern      10 Mar 07:00 UTC (02:00 EST)   3 Nov 06:00 UTC (02:00 EDT)
\*   America/Havana  10 Mar 05:00 UTC (00:00 CST)   3 Nov 05:00 UTC (01:00 CDT)
TzRules ==
    [ z \in {"UTC", "US/Eastern", "America/Havana"} |->
        CASE z = "UTC" ->
                [std |-> 0, dst |-> FALSE, from |-> 0, to |-> 0]
          [] z = "US/Eastern" ->
                [std |-> -18000, dst |-> TRUE,
                 from |-> 69 * 86400 + 7 * 3600, to |-> 307 * 86400 + 6 * 3600]
          [] z = "America/Havana" ->
                [std |-> -18000, dst |-> TRUE,
                 from |-> 69 * 86400 + 5 * 3600, to |-> 307 * 86400 + 5 * 3600] ]

\* utc_time.with_timezone(&tz).offset().fix().local_minus_utc()
OffsetAt(tz, u) ==
    LET r == TzRules[tz]
    IN  IF r.dst /\ r.from <= u /\ u < r.to THEN r.std + 3600 ELSE r.std

\* detect_dst_transition with the names the enum's comments give: a later
\* offset that is greater is a clock that jumped forward
detect_dst_transition_ClockSense(tz, utc_time) ==
    LET offset_before == OffsetAt(tz, utc_time)
        offset_after  == OffsetAt(tz, utc_time + 3600)
    IN  IF offset_after > offset_before THEN "SpringForward"
        ELSE IF offset_after < offset_before THEN "FallBack"
        ELSE "None"

\* TimelineWidget::detect_dst_transition; "None" is Option::None
detect_dst_transition(tz, utc_time) ==
    LET offset_before == OffsetAt(tz, utc_time)
        offset_after  == OffsetAt(tz, utc_time + 3600)
    IN  IF offset_after > offset_before THEN "FallBack"
        ELSE IF offset_after < offset_before THEN "SpringForward"
        ELSE "None"

\* Some(transition) of a detect_dst_transition result
IsSome(e) == e.kind # "None"

\* mutant: the loop steps by half an hour
ScanLoop_HalfHourly(tz, start, end) ==
    LET n == IF start < end THEN (end - start + 1799) \div 1800 ELSE 0
    IN  SelectSeq([k \in 1..n |-> [t    |-> start + 1800 * (k - 1),
                                  kind |-> detect_dst_transition(tz, start + 1800 * (k - 1))]],
                  IsSome)

\* the loop of get_dst_transitions_in_range with the test current <= end
ScanLoop_Inclusive(tz, start, end) ==
    LET n == IF start <= end THEN (end - start) \div 3600 + 1 ELSE 0
    IN  SelectSeq([k \in 1..n |-> [t    |-> start + 3600 * (k - 1),
                                  kind |-> detect_dst_transition(tz, start + 3600 * (k - 1))]],
                  IsSome)

\* the loop of get_dst_transitions_in_range: current takes the values
\* start, start + 1h, ... while current < end (n of them), and each one with
\* a transition is pushed
ScanLoop(tz, start, end) ==
    LET n == IF start < end THEN (end - start + 3599) \div 3600 ELSE 0
    IN  SelectSeq([k \in 1..n |-> [t    |-> start + 3600 * (k - 1),
                                  kind |-> detect_dst_transition(tz, start + 3600 * (k - 1))]],
                  IsSome)

\* TimelineWidget::get_dst_transitions_in_range
get_dst_transitions_in_range(tz, position, w) ==
    ScanLoop(tz, get_timeline_start(position, w), get_timeline_end(position, w))

InitScan ==
    /\ zones = <<>> /\ now = 1 /\ nops = 0 /\ last = NoCall /\ prev = NoCall
    /\ total_hours = -1
    /\ width \in Widths
    /\ scrub \in Scrubs
    /\ wzone \in DOMAIN TzRules
    /\ WidgetIdle
    /\ SearchIdle
    /\ UiIdle

\* detect_dst_transition(t)
DetectDst ==
    \E t \in ProbeInstants(scrub, width) :
        /\ detected' = <<[t |-> t, res |-> detect_dst_transition(wzone, t)]>>
        /\ UNCHANGED <<zones, now, nops, last, prev, width, total_hours, searchVars, uiVars,
                       scrub, wzone, tl_start, tl_end, probes, dst_scan, midnights>>

\* get_dst_transitions_in_range(width)
DstScan ==
    /\ ~dst_scan.done
    /\ dst_scan' = [done |-> TRUE, events |-> get_dst_transitions_in_range(wzone, scrub, width)]
    /\ UNCHANGED <<zones, now, nops, last, prev, width, total_hours, searchVars, uiVars,
                   scrub, wzone, tl_start, tl_end, probes, detected, midnights>>

\* the local wall-clock reading of the UTC instant u, in seconds
LocalSeconds(tz, u) == u + OffsetAt(tz, u)

\* DateTime::date_naive of a local reading, as a day number
DateNaive(local) == local \div 86400

\* Tz::from_local_datetime: the UTC instants whose local reading is `local`:
\* none in a gap, two in a fold, one otherwise
FromLocalDatetime(tz, local) ==
    {u \in {local - TzRules[tz].std, local - TzRules[tz].std - 3600} :
        LocalSeconds(tz, u) = local}

\* LocalResult::earliest in place of single: a fold gives its first instant
Single_Earliest(S) ==
    IF S = {} THEN <<>> ELSE <<CHOOSE u \in S : \A v \in S : u <= v>>

\* LocalResult::single: Some for exactly one instant
Single(S) ==
    IF Cardinality(S) = 1 THEN <<CHOOSE u \in S : TRUE>> ELSE <<>>

\* the midnight of the date resolved as if the zone were UTC
MidnightOf_AsUtc(tz, date) == <<date * 86400>>

\* tz.from_local_datetime(&current_date.and_hms_opt(0, 0, 0)).single()
MidnightOf(tz, date) == Single(FromLocalDatetime(tz, date * 86400))

\* the loop of get_midnight_markers_in_range over the dates up to end_date
RECURSIVE MidnightLoop(_, _, _, _, _)
MidnightLoop(tz, current_date, end_date, start, end) ==
    IF ~(current_date <= end_date) THEN <<>>
    ELSE LET midnight == MidnightOf(tz, current_date)
         IN  (IF midnight # <<>> /\ midnight[1] >= start /\ midnight[1] <= end
              THEN midnight ELSE <<>>)
             \o MidnightLoop(tz, current_date + 1, end_date, start, end)

\* TimelineWidget::get_midnight_markers_in_range
get_midnight_markers_in_range(tz, position, w) ==
    LET start       == get_timeline_start(position, w)
        end         == get_timeline_end(position, w)
        local_start == LocalSeconds(tz, start)
        local_end   == LocalSeconds(tz, end)
        first_date  == IF local_start % 86400 # 0
                       THEN DateNaive(local_start) + 1
                       ELSE DateNaive(local_start)
    IN  MidnightLoop(tz, first_date, DateNaive(local_end), start, end)

\* get_midnight_markers_in_range(width)
MidnightMarkers ==
    /\ ~midnights.done
    /\ midnights' = [done |-> TRUE, markers |-> get_midnight_markers_in_range(wzone, scrub, width)]
    /\ UNCHANGED <<zones, now, nops, last, prev, width, total_hours, searchVars, uiVars,
                   scrub, wzone, tl_start, tl_end, probes, detected, dst_scan>>

NextScan == DetectDst \/ DstScan \/ MidnightMarkers

SpecScan == InitScan /\ [][NextScan]_vars

\* the UTC instants at which the zone's offset changes
Transitions(tz) == IF TzRules[tz].dst THEN {TzRules[tz].from, TzRules[tz].to} ELSE {}

\* the window of the widget
WinStart == get_timeline_start(scrub, width)
WinEnd == get_timeline_end(scrub, width)

\* C15: a scan of a US/Eastern window that contains the hour before the
\* spring transition (EST to EDT) yields a SpringForward event in that hour,
\* and one that contains the hour before the autumn transition yields FallBack
C15_EasternClassified ==
    (dst_scan.done /\ wzone = "US/Eastern") =>
        /\ (WinStart <= TzRules[wzone].from - 3600 /\ TzRules[wzone].from <= WinEnd) =>
              \E k \in 1..Len(dst_scan.events) :
                  /\ dst_scan.events[k].kind = "SpringForward"
                  /\ TzRules[wzone].from - 3600 <= dst_scan.events[k].t
                  /\ dst_scan.events[k].t < TzRules[wzone].from
        /\ (WinStart <= TzRules[wzone].to - 3600 /\ TzRules[wzone].to <= WinEnd) =>
              \E k \in 1..Len(dst_scan.events) :
                  /\ dst_scan.events[k].kind = "FallBack"
                  /\ TzRules[wzone].to - 3600 <= dst_scan.events[k].t
                  /\ dst_scan.events[k].t < TzRules[wzone].to

C16_WitnessSmaller ==
    /\ Len(detected) = 1
    /\ OffsetAt(wzone, detected[1].t + 3600) < OffsetAt(wzone, detected[1].t)
    /\ detected[1].res = "SpringForward"

C16_WitnessEqual ==
    /\ wzone = "US/Eastern"
    /\ Len(detected) = 1
    /\ detected[1].res = "None"

\* C17: the scan emits events only at samples start + k hours with
\* start <= t < end, one for exactly the samples whose offset differs from
\* the offset an hour later, in increasing time order, and none for a zone
\* whose offset is constant over [start, end + 1h)
C17_ScanSamples ==
    dst_scan.done =>
        LET ev == dst_scan.events
        IN  /\ \A k \in 1..Len(ev) :
                  /\ (ev[k].t - WinStart) % 3600 = 0
                  /\ WinStart <= ev[k].t /\ ev[k].t < WinEnd
                  /\ OffsetAt(wzone, ev[k].t) # OffsetAt(wzone, ev[k].t + 3600)
            /\ \A j \in 0..168 :
                  LET t == WinStart + 3600 * j
                  IN  (t < WinEnd /\ OffsetAt(wzone, t) # OffsetAt(wzone, t + 3600)) =>
                          Cardinality({k \in 1..Len(ev) : ev[k].t = t}) = 1
            /\ \A k \in 1..Len(ev) - 1 : ev[k].t < ev[k + 1].t
            /\ (\A T \in Transitions(wzone) : ~(WinStart < T /\ T < WinEnd + 3600)) => ev = <<>>

\* an event found, and the empty scan of UTC
C17_Witness ==
    /\ dst_scan.done
    /\ wzone = "America/Havana"
    /\ Len(dst_scan.events) = 1

C17_WitnessConstant ==
    /\ dst_scan.done
    /\ wzone = "UTC"
    /\ dst_scan.events = <<>>

\* whether a transition of the zone removes or repeats a local 00:00:00
MidnightTouched(tz) ==
    \E T \in Transitions(tz) :
        LET l == (T + TzRules[tz].std) % 86400
        IN  l = 0 \/ l > 86400 - 3600

\* C18: every midnight marker is the UTC instant of a local 00:00:00 of the
\* zone and lies in the window (start <= marker <= end); a window of 48 hours
\* or more in a zone with no fold or gap at midnight has at least one marker
C18_MarkersAreMidnights ==
    midnights.done =>
        /\ \A k \in 1..Len(midnights.markers) :
              /\ LocalSeconds(wzone, midnights.markers[k]) % 86400 = 0
              /\ WinStart <= midnights.markers[k]
              /\ midnights.markers[k] <= WinEnd
        /\ (WinEnd - WinStart >= 48 * 3600 /\ ~MidnightTouched(wzone)) =>
              midnights.markers # <<>>

\* US/Eastern, 120 columns around 15 Jan 12:00: the midnights of 15 and
\* 16 Jan (05:00 UTC) are marked
C18_Witness ==
    /\ midnights.done
    /\ wzone = "US/Eastern"
    /\ width = 120
    /\ scrub = 14 * 86400 + 12 * 3600
    /\ midnights.markers = <<14 * 86400 + 5 * 3600, 15 * 86400 + 5 * 3600>>

\* the local dates the window touches
WindowDates == DateNaive(LocalSeconds(wzone, WinStart)) .. DateNaive(LocalSeconds(wzone, WinEnd))

\* C19: a date of the window whose local midnight is ambiguous (fold) or
\* missing (gap) gets no marker, and every other date whose midnight lies in
\* the window still gets its marker
C19_FoldGapSkipped ==
    midnights.done =>
        \A d \in WindowDates :
            LET S == FromLocalDatetime(wzone, d * 86400)
            IN  IF Cardinality(S) = 1
                THEN \A u \in S : (WinStart <= u /\ u <= WinEnd) =>
                        \E k \in 1..Len(midnights.markers) : midnights.markers[k] = u
                ELSE \A k \in 1..Len(midnights.markers) :
                        /\ midnights.markers[k] \notin S
                        /\ DateNaive(LocalSeconds(wzone, midnights.markers[k])) # d

\* America/Havana around 10 Mar 06:30:15, 200 columns: 10 Mar has no 00:00,
\* the midnights of 8, 9, 11 and 12 Mar are marked
C19_Witness ==
    /\ midnights.done
    /\ wzone = "America/Havana"
    /\ width = 200
    /\ scrub = 69 * 86400 + 6 * 3600 + 1815
    /\ FromLocalDatetime(wzone, 69 * 86400) = {}
    /\ midnights.markers = <<67 * 86400 + 5 * 3600, 68 * 86400 + 5 * 3600,
                             70 * 86400 + 4 * 3600, 71 * 86400 + 4 * 3600>>

\* the fold: 3 Nov 00:00 happens twice in America/Havana and is not marked
C19_WitnessFold ==
    /\ midnights.done
    /\ wzone = "America/Havana"
    /\ Cardinality(FromLocalDatetime(wzone, 307 * 86400)) = 2
    /\ \A u \in FromLocalDatetime(wzone, 307 * 86400) : WinStart <= u /\ u <= WinEnd
    /\ midnights.markers # <<>>

----------------------------------------------------------------------------
(* search_timezones *)

\* A string is the sequence of its characters. The characters in use, in
\* byte order (the order of str::cmp).
Alphabet ==
    << " ", ",", "/", "1", "9", "?",
       "A", "B", "C", "D", "E", "F", "G", "H", "I", "J", "K", "L", "M",
       "N", "O", "P", "Q", "R", "S", "T", "U", "V", "W", "X", "Y", "Z",
       "_",
       "a", "b", "c", "d", "e", "f", "g", "h", "i", "j", "k", "l", "m",
       "n", "o", "p", "q", "r", "s", "t", "u", "v", "w", "x", "y", "z" >>

\* the place of a character in byte order
Ord(c) == CHOOSE i \in 1..Len(Alphabet) : Alphabet[i] = c

\* char::to_lowercase
LowerChar(c) == IF Ord("A") <= Ord(c) /\ Ord(c) <= Ord("Z") THEN Alphabet[Ord(c) + 27] ELSE c

\* str::to_lowercase
ToLowercase(str) == [i \in 1..Len(str) |-> LowerChar(str[i])]

\* str::trim: without the leading and trailing white space
Trim(str) ==
    LET K == {i \in 1..Len(str) : str[i] # " "}
    IN  IF K = {} THEN <<>>
        ELSE SubSeq(str, CHOOSE i \in K : \A j \in K : i <= j,
                         CHOOSE i \in K : \A j \in K : j <= i)

\* str::starts_with
StartsWith(str, pat) == Len(pat) <= Len(str) /\ SubSeq(str, 1, Len(pat)) = pat

\* str::contains
StrContains(str, pat) ==
    \E i \in 0..(Len(str) - Len(pat)) : SubSeq(str, i + 1, i + Len(pat)) = pat

\* a.cmp(&b) == Ordering::Less || a == b, for strings: lexicographic by bytes
StrLeq(a, b) ==
    LET K == {i \in 1..Min(Len(a), Len(b)) : a[i] # b[i]}
    IN  IF K = {} THEN Len(a) <= Len(b)
        ELSE LET i == CHOOSE i \in K : \A j \in K : i <= j
             IN  Ord(a[i]) < Ord(b[i])

\* CitiesData.cities: a sample of cities.json rows, in file order
Cities ==
    << [name |-> <<"L","o","n","d","o","n">>, code |-> <<"L","O","N">>,
        timezone |-> <<"E","u","r","o","p","e","/","L","o","n","d","o","n">>,
        country |-> <<"U","K">>, aliases |-> <<>>],
       [name |-> <<"L","o","n","d","o","n">>, code |-> <<"Y","X","U">>,
        timezone |-> <<"A","m","e","r","i","c","a","/","T","o","r","o","n","t","o">>,
        country |-> <<"C","a","n","a","d","a">>, aliases |-> <<>>],
       [name |-> <<"T","o","r","o","n","t","o">>, code |-> <<"T","O","R">>,
        timezone |-> <<"A","m","e","r","i","c","a","/","T","o","r","o","n","t","o">>,
        country |-> <<"C","a","n","a","d","a">>, aliases |-> <<>>],
       [name |-> <<"T","o","k","y","o">>, code |-> <<"T","Y","O">>,
        timezone |-> <<"A","s","i","a","/","T","o","k","y","o">>,
        country |-> <<"J","a","p","a","n">>, aliases |-> << <<"E","d","o">> >>],
       [name |-> <<"O","s","l","o">>, code |-> <<"O","S","L">>,
        timezone |-> <<"E","u","r","o","p","e","/","O","s","l","o">>,
        country |-> <<"N","o","r","w","a","y">>, aliases |-> <<>>],
       [name |-> <<"B","o","s","t","o","n">>, code |-> <<"B","O","S">>,
        timezone |-> <<"A","m","e","r","i","c","a","/","N","e","w","_","Y","o","r","k">>,
        country |-> <<"U","S","A">>, aliases |-> <<>>],
       [name |-> <<"N","e","w"," ","Y","o","r","k">>, code |-> <<"N","Y","C">>,
        timezone |-> <<"A","m","e","r","i","c","a","/","N","e","w","_","Y","o","r","k">>,
        country |-> <<"U","S","A">>,
        aliases |-> << <<"B","i","g"," ","A","p","p","l","e">>, <<"M","a","n","h","a","t","t","a","n">> >>],
       [name |-> <<"L","i","s","b","o","n">>, code |-> <<"L","I","S">>,
        timezone |-> <<"E","u","r","o","p","e","/","L","i","s","b","o","n">>,
        country |-> <<"P","o","r","t","u","g","a","l">>, aliases |-> << <<"L","i","s","b","o","a">> >>],
       [name |-> <<"R","o","m","e">>, code |-> <<"R","O","M">>,
        timezone |-> <<"E","u","r","o","p","e","/","R","o","m","e">>,
        country |-> <<"I","t","a","l","y">>, aliases |-> << <<"R","o","m","a">> >>],
       [name |-> <<"P","o","r","t","o">>, code |-> <<"O","P","O">>,
        timezone |-> <<"E","u","r","o","p","e","/","L","i","s","b","o","n">>,
        country |-> <<"P","o","r","t","u","g","a","l">>, aliases |-> <<>>],
       [name |-> <<"B","o","n","n">>, code |-> <<"B","N","N">>,
        timezone |-> <<"E","u","r","o","p","e","/","B","e","r","l","i","n">>,
        country |-> <<"G","e","r","m","a","n","y">>, aliases |-> <<>>],
       [name |-> <<"M","a","n","c","h","e","s","t","e","r">>, code |-> <<"M","A","N">>,
        timezone |-> <<"E","u","r","o","p","e","/","L","o","n","d","o","n">>,
        country |-> <<"U","K">>, aliases |-> <<>>] >>

\* CitiesData.major_cities
MajorCities ==
    << <<"L","o","n","d","o","n">>, <<"T","o","r","o","n","t","o">>,
       <<"T","o","k","y","o">>, <<"N","e","w"," ","Y","o","r","k">> >>

\* the queries typed are all the strings of at most QueryLen of these
\* characters, and the words below
QueryChars == {" ", "o", "O", "n", "l", "u", "k"}

QueryWords ==
    { <<"l","o","n","d","o","n">>, <<" ","L","o","n","d","o","n"," ">>, <<"L","O","N">>,
      <<"n","y","c">>, <<"e","d","o">>, <<"b","i","g">>, <<"a","p","p","l","e">>,
      <<"e","u","r","o","p","e">>, <<"c","a","n","a","d","a">>, <<"r","o">>,
      <<"l","i","s","b","o">>, <<"n","e","w"," ","y">>, <<"x","y","z">> }

Queries == QueryWords \cup UNION {[1..n -> QueryChars] : n \in 0..QueryLen}

\* the name / code clauses as three independent tests: a name equal to the
\* query also starts with it and contains it
NameScore_AllRows(name_lower, code_lower, query_lower) ==
    (IF name_lower = query_lower \/ code_lower = query_lower THEN 1000 ELSE 0)
    + (IF StartsWith(name_lower, query_lower) \/ StartsWith(code_lower, query_lower) THEN 500 ELSE 0)
    + (IF StrContains(name_lower, query_lower) \/ StrContains(code_lower, query_lower) THEN 200 ELSE 0)

\* the name / code clauses: the first that holds counts
NameScore(name_lower, code_lower, query_lower) ==
    IF name_lower = query_lower \/ code_lower = query_lower THEN 1000
    ELSE IF StartsWith(name_lower, query_lower) \/ StartsWith(code_lower, query_lower) THEN 500
    ELSE IF StrContains(name_lower, query_lower) \/ StrContains(code_lower, query_lower) THEN 200
    ELSE 0

\* for alias in &city.aliases: each alias adds its first clause that holds
RECURSIVE AliasScore(_, _)
AliasScore(aliases, query_lower) ==
    IF aliases = <<>> THEN 0
    ELSE LET alias_lower == ToLowercase(Head(aliases))
         IN  (IF alias_lower = query_lower THEN 800
              ELSE IF StartsWith(alias_lower, query_lower) THEN 400
              ELSE IF StrContains(alias_lower, query_lower) THEN 150
              ELSE 0)
             + AliasScore(Tail(aliases), query_lower)

\* the body of the loop over cities: the score of one city
Score(city, query_lower) ==
    NameScore(ToLowercase(city.name), ToLowercase(city.code), query_lower)
    + AliasScore(city.aliases, query_lower)
    + (IF StrContains(ToLowercase(city.country), query_lower) THEN 100 ELSE 0)
    + (IF StrContains(ToLowercase(city.timezone), query_lower) THEN 50 ELSE 0)
    + (IF Contains(MajorCities, city.name) THEN 25 ELSE 0)

\* results after the loop: (name, score) of the cities with score > 0, in
\* catalog order
RECURSIVE Scored(_, _)
Scored(n, query_lower) ==
    IF n = 0 THEN <<>>
    ELSE LET score == Score(Cities[n], query_lower)
         IN  Scored(n - 1, query_lower)
             \o (IF score > 0 THEN <<[name |-> Cities[n].name, score |-> score]>> ELSE <<>>)

\* a comparator that orders by name alone
Before_ByName(a, b) == StrLeq(a.name, b.name)

\* the comparator of results.sort_by: a is not after b, by score (highest
\* first), then by name
Before(a, b) ==
    IF b.score # a.score THEN b.score < a.score ELSE StrLeq(a.name, b.name)

\* slice::sort_by, a stable sort
RECURSIVE InsertResult(_, _)
InsertResult(s, r) ==
    IF s = <<>> THEN <<r>>
    ELSE IF Before(s[Len(s)], r) THEN Append(s, r)
    ELSE Append(InsertResult(SubSeq(s, 1, Len(s) - 1), r), s[Len(s)])

RECURSIVE SortResults(_)
SortResults(s) ==
    IF s = <<>> THEN <<>>
    ELSE InsertResult(SortResults(SubSeq(s, 1, Len(s) - 1)), s[Len(s)])

\* Iterator::take
Take(s, n) == SubSeq(s, 1, Min(n, Len(s)))

\* search_timezones with the emptiness test made before the trim
search_timezones_NoTrim(q) ==
    LET query_lower == ToLowercase(q)
    IN  IF query_lower = <<>> THEN <<>>
        ELSE LET top == Take(SortResults(Scored(Len(Cities), query_lower)), 8)
             IN  [k \in 1..Len(top) |-> top[k].name]

\* TimeZone::search_timezones
search_timezones(q) ==
    LET query_lower == Trim(ToLowercase(q))
    IN  IF query_lower = <<>> THEN <<>>
        ELSE LET top == Take(SortResults(Scored(Len(Cities), query_lower)), 8)
             IN  [k \in 1..Len(top) |-> top[k].name]

\* the value of `score` at the end of each iteration of the loop over the
\* cities (no iteration is made for an empty query)
CityScores(q) ==
    LET query_lower == Trim(ToLowercase(q))
    IN  IF query_lower = <<>> THEN <<>>
        ELSE [c \in 1..Len(Cities) |-> Score(Cities[c], query_lower)]

InitSearch ==
    /\ zones = <<>> /\ now = 1 /\ nops = 0 /\ last = NoCall /\ prev = NoCall
    /\ width = 0
    /\ total_hours = -1
    /\ scrub = 0
    /\ wzone = "UTC"
    /\ WidgetIdle
    /\ UiIdle
    /\ query \in Queries
    /\ search_results = [done |-> FALSE, names |-> <<>>, scores |-> <<>>]

\* search_timezones(query)
Search ==
    /\ ~search_results.done
    /\ search_results' = [done |-> TRUE, names |-> search_timezones(query),
                          scores |-> CityScores(query)]
    /\ UNCHANGED <<zones, now, nops, last, prev, width, total_hours, windowVars, uiVars, query>>

NextSearch == Search

SpecSearch == InitSearch /\ [][NextSearch]_vars

\* the query as the scoring sees it
QueryLower == Trim(ToLowercase(query))

\* the catalog rows of a name, best score first (file order among equals)
RowsNamed(name) == {c \in 1..Len(Cities) : Cities[c].name = name}

RowRank(c) ==
    Cardinality({d \in RowsNamed(Cities[c].name) :
        \/ Score(Cities[d], QueryLower) > Score(Cities[c], QueryLower)
        \/ (Score(Cities[d], QueryLower) = Score(Cities[c], QueryLower) /\ d < c)}) + 1

\* the catalog row behind the k-th result: the j-th best row of that name,
\* where the k-th result is the j-th result with that name; 0 if there is none
RowOf(k) ==
    LET names == search_results.names
        j     == Cardinality({i \in 1..k : names[i] = names[k]})
        C     == {c \in RowsNamed(names[k]) : RowRank(c) = j}
    IN  IF C = {} THEN 0 ELSE CHOOSE c \in C : TRUE

ReturnedRows == {RowOf(k) : k \in 1..Len(search_results.names)}

\* C20: search returns at most 8 results, by descending score with equal
\* scores in alphabetical order of the label, and no city left out scores
\* higher than a city returned
C20_TopEightOrdered ==
    (search_results.done /\ QueryLower # <<>>) =>
        LET names == search_results.names
        IN  /\ Len(names) <= 8
            /\ \A k \in 1..Len(names) : RowOf(k) # 0
            /\ \A k \in 1..Len(names) - 1 :
                  LET a == Score(Cities[RowOf(k)], QueryLower)
                      b == Score(Cities[RowOf(k + 1)], QueryLower)
                  IN  a > b \/ (a = b /\ StrLeq(names[k], names[k + 1]))
            /\ \A c \in (1..Len(Cities)) \ ReturnedRows :
                  \A k \in 1..Len(names) :
                      Score(Cities[c], QueryLower) <= Score(Cities[RowOf(k)], QueryLower)

\* "o": all the cities score, eight are returned, and two of them with
\* equal scores stand in alphabetical order
C20_Witness ==
    /\ search_results.done
    /\ query = <<"o">>
    /\ Cardinality({c \in 1..Len(Cities) : Score(Cities[c], QueryLower) > 0}) = Len(Cities)
    /\ Len(search_results.names) = 8
    /\ \E k \in 1..7 :
          /\ Score(Cities[RowOf(k)], QueryLower) = Score(Cities[RowOf(k + 1)], QueryLower)
          /\ search_results.names[k] # search_results.names[k + 1]

\* whether the query occurs in the name, the code, an alias, the country or
\* the timezone string of the city, letter case aside
Matched(city) ==
    \/ StrContains(ToLowercase(city.name), QueryLower)
    \/ StrContains(ToLowercase(city.code), QueryLower)
    \/ \E a \in 1..Len(city.aliases) : StrContains(ToLowercase(city.aliases[a]), QueryLower)
    \/ StrContains(ToLowercase(city.country), QueryLower)
    \/ StrContains(ToLowercase(city.timezone), QueryLower)

\* C21: a city is returned only if the non-empty query matched it in its
\* name, code, aliases, country or timezone string (the major-city bonus
\* alone does not bring a city into the result)
C21_OnlyMatchedReturned ==
    (search_results.done /\ QueryLower # <<>>) =>
        \A k \in 1..Len(search_results.names) :
            /\ RowOf(k) # 0
            /\ Matched(Cities[RowOf(k)])

\* C22: search never returns the same label twice
C22_LabelsDistinct ==
    search_results.done =>
        \A j, k \in 1..Len(search_results.names) :
            j # k => search_results.names[j] # search_results.names[k]

Max(S) == CHOOSE x \in S : \A y \in S : y <= x

RECURSIVE SumSeq(_)
SumSeq(s) == IF s = <<>> THEN 0 ELSE Head(s) + SumSeq(Tail(s))

\* the strongest row that holds of equals / starts with / contains
Strongest(strs, eq, starts, contains) ==
    Max({0}
        \cup {eq : x \in {y \in strs : ToLowercase(y) = QueryLower}}
        \cup {starts : x \in {y \in strs : StartsWith(ToLowercase(y), QueryLower)}}
        \cup {contains : x \in {y \in strs : StrContains(ToLowercase(y), QueryLower)}})

\* the sum of the matching clauses of a city
ClauseSum(city) ==
    Strongest({city.name, city.code}, 1000, 500, 200)
    + SumSeq([a \in 1..Len(city.aliases) |-> Strongest({city.aliases[a]}, 800, 400, 150)])
    + (IF StrContains(ToLowercase(city.country), QueryLower) THEN 100 ELSE 0)
    + (IF StrContains(ToLowercase(city.timezone), QueryLower) THEN 50 ELSE 0)

\* C23: for a non-empty query the score of a city is the sum of its matching
\* clauses, compared without regard to letter case: the strongest of the
\* name-or-code rows, the strongest row of each alias (aliases add up), 100
\* for the country and 50 for the timezone string; a major city may carry
\* its bonus of 25 on top
C23_ScoreIsClauseSum ==
    (search_results.done /\ QueryLower # <<>>) =>
        /\ Len(search_results.scores) = Len(Cities)
        /\ \A c \in 1..Len(Cities) :
              \/ search_results.scores[c] = ClauseSum(Cities[c])
              \/ /\ Contains(MajorCities, Cities[c].name)
                 /\ search_results.scores[c] = ClauseSum(Cities[c]) + 25

\* "ro": Rome starts with it (500), so does its alias Roma (400), and
\* europe/rome contains it (50)
C23_Witness ==
    /\ search_results.done
    /\ query = <<"r","o">>
    /\ search_results.scores[9] = 950

\* a query in capitals is compared in lower case: "LON" equals the code of
\* London (1000), europe/london contains it (50), and London is major (25)
C23_WitnessCase ==
    /\ search_results.done
    /\ query = <<"L","O","N">>
    /\ search_results.scores[1] = 1075

\* C24: search with an empty or whitespace-only query returns an empty
\* sequence
C24_BlankQueryNoResult ==
    (search_results.done /\ \A i \in 1..Len(query) : query[i] = " ") =>
        search_results.names = <<>>

\* two spaces typed
C24_Witness ==
    /\ search_results.done
    /\ query = <<" ", " ">>
    /\ search_results.names = <<>>

\* nothing typed
C24_WitnessEmpty ==
    /\ search_results.done
    /\ query = <<>>
    /\ search_results.names = <<>>

----------------------------------------------------------------------------
(* App: the registry as the application holds it *)

\* Option<String>
None == [some |-> FALSE, v |-> <<>>]

Some(v) == [some |-> TRUE, v |-> v]

\* Tz::from_str on the timezone strings of Cities: the id, "" for Err
TzFromStr(str) ==
    CASE str = <<"E","u","r","o","p","e","/","L","o","n","d","o","n">>    -> "Europe/London"
      [] str = <<"A","m","e","r","i","c","a","/","T","o","r","o","n","t","o">>  -> "America/Toronto"
      [] str = <<"A","s","i","a","/","T","o","k","y","o">>       -> "Asia/Tokyo"
      [] str = <<"E","u","r","o","p","e","/","O","s","l","o">>      -> "Europe/Oslo"
      [] str = <<"A","m","e","r","i","c","a","/","N","e","w","_","Y","o","r","k">> -> "America/New_York"
      [] str = <<"E","u","r","o","p","e","/","L","i","s","b","o","n">>    -> "Europe/Lisbon"
      [] str = <<"E","u","r","o","p","e","/","R","o","m","e">>      -> "Europe/Rome"
      [] str = <<"E","u","r","o","p","e","/","B","e","r","l","i","n">>    -> "Europe/Berlin"
      [] OTHER -> ""

\* row c of Cities with its timezone parsed
CityRow(c) ==
    [name |-> Cities[c].name, code |-> Cities[c].code,
     timezone |-> TzFromStr(Cities[c].timezone)]

\* the names of Cities without their case
NamesLower == [c \in 1..Len(Cities) |-> ToLowercase(Cities[c].name)]

\* cities.iter().find(|c| c.name.eq_ignore_ascii_case(name)): the row, 0 for None
FindByName(name) ==
    LET lower == ToLowercase(name)
    IN  FindFirst({c \in 1..Len(Cities) : NamesLower[c] = lower})

\* TimeZone has a custom_label, None when the entry is created
WithLabels(zs) ==
    [k \in 1..Len(zs) |->
        IF "custom_label" \in DOMAIN zs[k] THEN zs[k]
        ELSE zs[k] @@ [custom_label |-> None]]

\* TimeZoneManager::add_timezone_by_name_with_merging over CitiesData.cities
AddByName(zs, name, merge_same_time, i) ==
    LET c == FindByName(name)
    IN  IF c = 0 \/ ~TzFromStrOk(CityRow(c).timezone) THEN [zones |-> zs, ret |-> FALSE]
        ELSE LET r == AddFoundCity(zs, CityRow(c), merge_same_time, i)
             IN  [zones |-> WithLabels(r.zones), ret |-> r.ret]

\* TimeZoneManager::add_timezone_by_name, with the merge policy in force
add_timezone_by_name(zs, name, merge_same_time, i) == AddByName(zs, name, merge_same_time, i)

\* TimeZoneManager::update_zone_label (index is 0-based)
update_zone_label(zs, index, custom_label) ==
    IF index < Len(zs) THEN [zs EXCEPT ![index + 1].custom_label = custom_label] ELSE zs

\* default_city_names of with_default_zones
DefaultCityNames ==
    << <<"L","o","s"," ","A","n","g","e","l","e","s">>, <<"N","e","w"," ","Y","o","r","k">>, <<"U","T","C">>, <<"L","o","n","d","o","n">>, <<"B","e","r","l","i","n">>, <<"T","o","k","y","o">>, <<"S","y","d","n","e","y">> >>

\* the filter_map of with_default_zones: one entry per default name found
\* in the catalog (c.name == name), in the order of the names
RECURSIVE DefaultEntries(_)
DefaultEntries(names) ==
    IF names = <<>> THEN <<>>
    ELSE LET c == FindFirst({k \in 1..Len(Cities) : Cities[k].name = Head(names)})
         IN  (IF c # 0 /\ TzFromStrOk(CityRow(c).timezone)
              THEN <<add_city(NewTimeZone(CityRow(c).timezone, CityRow(c).code), CityRow(c).name)>>
              ELSE <<>>)
             \o DefaultEntries(Tail(names))

\* TimeZoneManager::with_default_zones
with_default_zones(i) == WithLabels(SortByOffset(DefaultEntries(DefaultCityNames), i))

----------------------------------------------------------------------------
(* App::update. A DateTime<Utc> is a number of milliseconds since
   2024-01-01T00:00:00Z; an index into a Vec is 0-based as in the code. *)

Direction == {"Up", "Down", "Left", "Right"}

\* ColorTheme::all_themes
all_themes == <<"Default", "Ocean", "Forest", "Sunset", "Cyberpunk", "Monochrome">>

\* ColorTheme::next
ColorThemeNext(theme) ==
    LET current_index == FindFirst({k \in 1..Len(all_themes) : all_themes[k] = theme}) - 1
        next_index    == ((IF current_index < 0 THEN 0 ELSE current_index) + 1) % Len(all_themes)
    IN  all_themes[next_index + 1]

\* the texts typed into the add-zone dialog
AppInputs ==
    { <<"l","o","n","d","o","n">>, <<"r","o">>, <<"x","y","z">>, <<"O","s","l","o">>, <<"L","o","n","d","o","n",","," ","C","a","n","a","d","a">> }

\* the characters typed into the dialog, and the texts of up to two of them
TypedChars == {"q", "?", "a", "e", "r", "o", "j", "1", "9", "c"}

TypedInputs == UNION {[1..n -> TypedChars] : n \in 0..2}

\* search_timezones, tabulated for the texts of AppInputs and TypedInputs:
\* the pairs (text, results)
SearchMemo == {<<input, search_timezones(input)>> : input \in AppInputs \cup TypedInputs}

\* TimeZoneManager::search_timezones(&input)
Searched(input) ==
    IF \E p \in SearchMemo : p[1] = input
    THEN (CHOOSE p \in SearchMemo : p[1] = input)[2]
    ELSE search_timezones(input)

\* mutant: the scrub instant follows the clock
Tick_FollowClock(self, t) == [self EXCEPT !.current_time = t, !.timeline_position = t]

\* Message::Tick; now is the value of Utc::now()
Tick(self, t) == [self EXCEPT !.current_time = t]

\* mutant: Left always goes to the start of the current hour
ScrubTimeline_NoBoundaryCase(self, direction) ==
    LET position   == self.timeline_position
        hour_start == position - (position % 3600000)
    IN  [self EXCEPT !.timeline_position =
            CASE direction = "Left" -> hour_start
              [] direction = "Right" -> hour_start + 3600000
              [] OTHER -> position]

\* Message::ScrubTimeline
ScrubTimeline(self, direction) ==
    LET position   == self.timeline_position
        hour_start == position - (position % 3600000)
    IN  [self EXCEPT !.timeline_position =
            CASE direction = "Left" ->
                    IF position % 3600000 = 0 THEN position - 3600000 ELSE hour_start
              [] direction = "Right" -> hour_start + 3600000
              [] OTHER -> position]

\* Message::ScrubTimelineWithShift
ScrubTimelineWithShift(self, direction) ==
    LET delta == CASE direction = "Left" -> -60000
                   [] direction = "Right" -> 60000
                   [] OTHER -> 0
    IN  [self EXCEPT !.timeline_position = self.timeline_position + delta]

\* Message::ResetToNow
ResetToNow(self) == [self EXCEPT !.timeline_position = self.current_time]

\* Message::FineAdjust
FineAdjust(self, minutes) ==
    [self EXCEPT !.timeline_position = self.timeline_position + 60000 * minutes]

\* Message::NavigateZone
NavigateZone(self, direction) ==
    IF Len(self.zones) > 0
    THEN CASE direction = "Up" /\ self.selected_zone_index > 0 ->
                [self EXCEPT !.selected_zone_index = self.selected_zone_index - 1]
           [] direction = "Down" /\ self.selected_zone_index < Len(self.zones) - 1 ->
                [self EXCEPT !.selected_zone_index = self.selected_zone_index + 1]
           [] OTHER -> self
    ELSE self

\* Message::ToggleTimeFormat
ToggleTimeFormat(self) ==
    [self EXCEPT !.display_format =
        IF self.display_format = "TwentyFourHour" THEN "TwelveHour" ELSE "TwentyFourHour"]

\* Message::ToggleTimezoneDisplayMode
ToggleTimezoneDisplayMode(self) ==
    [self EXCEPT !.timezone_display_mode =
        IF self.timezone_display_mode = "Short" THEN "Full" ELSE "Short"]

\* Message::ToggleDate
ToggleDate(self) == [self EXCEPT !.show_date = ~self.show_date]

\* Message::ToggleSunTimes
ToggleSunTimes(self) == [self EXCEPT !.show_sun_times = ~self.show_sun_times]

\* Message::CycleColorTheme
CycleColorTheme(self) == [self EXCEPT !.color_theme = ColorThemeNext(self.color_theme)]

\* Message::ToggleHelp
ToggleHelp(self) == [self EXCEPT !.show_help = ~self.show_help]

\* StartAddZone that leaves the rename modal as it is
StartAddZone_KeepRename(self) ==
    [self EXCEPT !.adding_zone = TRUE,
                 !.add_zone_input = <<>>,
                 !.zone_search_results = <<>>,
                 !.selected_search_result = 0]

\* Message::StartAddZone
StartAddZone(self) ==
    [self EXCEPT !.renaming_zone = FALSE,
                 !.rename_zone_input = <<>>,
                 !.adding_zone = TRUE,
                 !.add_zone_input = <<>>,
                 !.zone_search_results = <<>>,
                 !.selected_search_result = 0]

\* Message::UpdateAddZoneInput
UpdateAddZoneInput(self, input) ==
    [self EXCEPT !.add_zone_input = input,
                 !.zone_search_results = Searched(input),
                 !.selected_search_result = 0]

\* mutant: Down without the test against the length of the list
NavigateSearchResults_NoLastRow(self, direction) ==
    IF self.zone_search_results # <<>>
    THEN CASE direction = "Up" /\ self.selected_search_result > 0 ->
                [self EXCEPT !.selected_search_result = self.selected_search_result - 1]
           [] direction = "Down" ->
                [self EXCEPT !.selected_search_result = self.selected_search_result + 1]
           [] OTHER -> self
    ELSE self

\* Message::NavigateSearchResults
NavigateSearchResults(self, direction) ==
    IF self.zone_search_results # <<>>
    THEN CASE direction = "Up" /\ self.selected_search_result > 0 ->
                [self EXCEPT !.selected_search_result = self.selected_search_result - 1]
           [] direction = "Down"
              /\ self.selected_search_result < Len(self.zone_search_results) - 1 ->
                [self EXCEPT !.selected_search_result = self.selected_search_result + 1]
           [] OTHER -> self
    ELSE self

\* `if success { ... }` of the three add branches: the registry after the
\* call, and the selection brought back into range
AfterAdd(self, added) ==
    LET zs == added.zones
    IN  IF added.ret /\ self.selected_zone_index >= Len(zs)
        THEN [self EXCEPT !.zones = zs, !.selected_zone_index = SaturatingSub(Len(zs), 1)]
        ELSE [self EXCEPT !.zones = zs]

\* Message::SelectSearchResult; merge_same_time is the policy of the add and
\* Instants[i] the value of Utc::now() in it
SelectSearchResult(self, index, merge_same_time, i) ==
    LET results == self.zone_search_results
        s1 == IF index < Len(results)
              THEN AfterAdd(self, add_timezone_by_name(self.zones, results[index + 1],
                                                       merge_same_time, i))
              ELSE self
    IN  [s1 EXCEPT !.adding_zone = FALSE,
                   !.add_zone_input = <<>>,
                   !.zone_search_results = <<>>]

\* Message::ConfirmAddZone
ConfirmAddZone(self, merge_same_time, i) ==
    LET results == self.zone_search_results
        s1 == IF results # <<>>
              THEN IF self.selected_search_result < Len(results)
                   THEN AfterAdd(self, add_timezone_by_name(self.zones,
                                    results[self.selected_search_result + 1],
                                    merge_same_time, i))
                   ELSE self
              ELSE IF self.add_zone_input # <<>>
              THEN AfterAdd(self, add_timezone_by_name(self.zones, self.add_zone_input,
                                                       merge_same_time, i))
              ELSE self
    IN  [s1 EXCEPT !.adding_zone = FALSE,
                   !.add_zone_input = <<>>,
                   !.zone_search_results = <<>>,
                   !.selected_search_result = 0]

\* Message::CancelAddZone
CancelAddZone(self) ==
    [self EXCEPT !.adding_zone = FALSE,
                 !.add_zone_input = <<>>,
                 !.zone_search_results = <<>>,
                 !.selected_search_result = 0]

\* RemoveCurrentZone without the `zone_count() > 1` test
RemoveCurrentZone_Unguarded(self) ==
    LET zs == remove_zone(self.zones, self.selected_zone_index).zones
    IN  IF self.selected_zone_index >= Len(zs)
        THEN [self EXCEPT !.zones = zs, !.selected_zone_index = SaturatingSub(Len(zs), 1)]
        ELSE [self EXCEPT !.zones = zs]

\* RemoveCurrentZone without the adjustment of the selection
RemoveCurrentZone_NoAdjust(self) ==
    IF Len(self.zones) > 1
    THEN [self EXCEPT !.zones = remove_zone(self.zones, self.selected_zone_index).zones]
    ELSE self

\* Message::RemoveCurrentZone
RemoveCurrentZone(self) ==
    IF Len(self.zones) > 1
    THEN LET zs == remove_zone(self.zones, self.selected_zone_index).zones
         IN  IF self.selected_zone_index >= Len(zs)
             THEN [self EXCEPT !.zones = zs, !.selected_zone_index = SaturatingSub(Len(zs), 1)]
             ELSE [self EXCEPT !.zones = zs]
    ELSE self

\* Message::StartRenameZone; zones()[selected_zone_index] panics when the
\* index is out of bounds
StartRenameZone(self) ==
    IF Len(self.zones) > 0
    THEN IF self.selected_zone_index < Len(self.zones)
         THEN [self EXCEPT !.adding_zone = FALSE,
                           !.add_zone_input = <<>>,
                           !.zone_search_results = <<>>,
                           !.renaming_zone = TRUE,
                           !.rename_zone_input =
                               self.zones[self.selected_zone_index + 1].custom_label.v]
         ELSE [self EXCEPT !.adding_zone = FALSE,
                           !.add_zone_input = <<>>,
                           !.zone_search_results = <<>>,
                           !.renaming_zone = TRUE,
                           !.panicked = TRUE]
    ELSE self

\* Message::UpdateRenameInput
UpdateRenameInput(self, input) == [self EXCEPT !.rename_zone_input = input]

\* Message::ConfirmRename
ConfirmRename(self) ==
    LET custom_label == IF Trim(self.rename_zone_input) = <<>> THEN None
                        ELSE Some(Trim(self.rename_zone_input))
        s1 == IF Len(self.zones) > 0
              THEN [self EXCEPT !.zones = update_zone_label(self.zones,
                                              self.selected_zone_index, custom_label)]
              ELSE self
    IN  [s1 EXCEPT !.renaming_zone = FALSE, !.rename_zone_input = <<>>]

\* Message::CancelRename
CancelRename(self) == [self EXCEPT !.renaming_zone = FALSE, !.rename_zone_input = <<>>]

\* Message::ClearCustomName
ClearCustomName(self) ==
    IF Len(self.zones) > 0
    THEN [self EXCEPT !.zones = update_zone_label(self.zones, self.selected_zone_index, None)]
    ELSE self

\* Message::Quit
Quit(self) == [self EXCEPT !.should_quit = TRUE]

----------------------------------------------------------------------------
(* SpecApp: an App built from a configuration, then any messages *)

\* AppConfig: the city names of its zones (ZoneConfigCompat::Simple, no
\* custom label) and its selected_zone_index; the other fields are those
\* of AppConfig::default
Configs ==
    { [zones |-> <<>>, selected_zone_index |-> 0],
      [zones |-> << <<"A","t","l","a","n","t","i","s">> >>, selected_zone_index |-> 7],
      [zones |-> << <<"O","s","l","o">> >>, selected_zone_index |-> 3],
      [zones |-> << <<"l","o","n","d","o","n">>, <<"L","i","s","b","o","n">>, <<"T","o","k","y","o">> >>, selected_zone_index |-> 1],
      [zones |-> << <<"L","o","n","d","o","n">>, <<"M","a","n","c","h","e","s","t","e","r">> >>, selected_zone_index |-> 0] }

\* the offsets (in hours) of the local timezone of the machine
LocalOffsetHours == {0, 9}

\* the values Utc::now() takes: 12:34:17.250 at construction, then 13:00:00.000
\* or 13:00:01.000
StartTime == 45257250

NowValues == {46800000, 46801000}

\* the arguments of the messages that carry one
FineAdjustMinutes == {-15, 60}

SelectIndices == {1, 8}

RenameInputs == { <<"H","q">>, <<" ","H","q"," ">>, <<" "," ">> }

\* the loop of from_config over config.zones
RECURSIVE LoadZones(_, _, _, _)
LoadZones(zs, names, merge_same_time, i) ==
    IF names = <<>> THEN zs
    ELSE LoadZones(add_timezone_by_name(zs, Head(names), merge_same_time, i).zones,
                   Tail(names), merge_same_time, i)

\* App::from_config; the record is the App, with timezone_manager.zones as
\* zones and panicked for a panic of update
from_config(config, merge_same_time, i, t) ==
    LET loaded == LoadZones(<<>>, config.zones, merge_same_time, i)
        zs     == IF loaded = <<>> THEN with_default_zones(i) ELSE loaded
    IN  [current_time |-> t,
         timeline_position |-> t,
         zones |-> zs,
         selected_zone_index |-> Min(config.selected_zone_index, SaturatingSub(Len(zs), 1)),
         display_format |-> "TwentyFourHour",
         timezone_display_mode |-> "Short",
         time_config |-> "default",
         color_theme |-> "Default",
         show_help |-> FALSE,
         adding_zone |-> FALSE,
         add_zone_input |-> <<>>,
         zone_search_results |-> <<>>,
         selected_search_result |-> 0,
         renaming_zone |-> FALSE,
         rename_zone_input |-> <<>>,
         show_date |-> FALSE,
         show_sun_times |-> TRUE,
         should_quit |-> FALSE,
         panicked |-> FALSE]

\* App::select_local_timezone
select_local_timezone(self, local_offset_hours, i) ==
    LET index == FindFirst({k \in 1..Len(self.zones) :
                              utc_offset_hours(self.zones[k], i) = local_offset_hours})
    IN  IF index # 0 THEN [self EXCEPT !.selected_zone_index = index - 1] ELSE self

\* before any message
NoMsg == [kind |-> "none", dir |-> "", n |-> 0, text |-> <<>>, pre |-> <<>>]

\* App::from_config(config), or App::new: from_config then select_local_timezone
InitApp ==
    /\ zones = <<>> /\ now = 1 /\ nops = 0 /\ last = NoCall /\ prev = NoCall
    /\ width = 0
    /\ total_hours = -1
    /\ scrub = 0
    /\ wzone = "UTC"
    /\ WidgetIdle
    /\ SearchIdle
    /\ \E config \in Configs, merge_same_time \in BOOLEAN :
          \/ app = from_config(config, merge_same_time, now, StartTime)
          \/ \E h \in LocalOffsetHours :
                app = select_local_timezone(
                          from_config(config, merge_same_time, now, StartTime), h, now)
    /\ msg = NoMsg
    /\ nmsgs = 0
    /\ run = <<>>

\* app.update(message): the App becomes post; a panic ends the process
Update(kind, dir, n, text, post) ==
    /\ nmsgs < MaxMsgs
    /\ ~app.panicked
    /\ app' = post
    /\ msg' = [kind |-> kind, dir |-> dir, n |-> n, text |-> text, pre |-> app]
    /\ nmsgs' = nmsgs + 1
    /\ UNCHANGED <<zones, now, nops, last, prev, width, total_hours, windowVars, searchVars, run>>

MsgTick == \E t \in NowValues : Update("Tick", "", 0, <<>>, Tick(app, t))

MsgScrubTimeline ==
    \E d \in Direction : Update("ScrubTimeline", d, 0, <<>>, ScrubTimeline(app, d))

MsgScrubTimelineWithShift ==
    \E d \in Direction :
        Update("ScrubTimelineWithShift", d, 0, <<>>, ScrubTimelineWithShift(app, d))

MsgResetToNow == Update("ResetToNow", "", 0, <<>>, ResetToNow(app))

MsgFineAdjust ==
    \E m \in FineAdjustMinutes : Update("FineAdjust", "", m, <<>>, FineAdjust(app, m))

MsgNavigateZone ==
    \E d \in Direction : Update("NavigateZone", d, 0, <<>>, NavigateZone(app, d))

MsgToggleTimeFormat == Update("ToggleTimeFormat", "", 0, <<>>, ToggleTimeFormat(app))

MsgToggleTimezoneDisplayMode ==
    Update("ToggleTimezoneDisplayMode", "", 0, <<>>, ToggleTimezoneDisplayMode(app))

MsgToggleDate == Update("ToggleDate", "", 0, <<>>, ToggleDate(app))

MsgToggleSunTimes == Update("ToggleSunTimes", "", 0, <<>>, ToggleSunTimes(app))

MsgToggleHelp == Update("ToggleHelp", "", 0, <<>>, ToggleHelp(app))

MsgCycleColorTheme == Update("CycleColorTheme", "", 0, <<>>, CycleColorTheme(app))

MsgStartAddZone == Update("StartAddZone", "", 0, <<>>, StartAddZone(app))

MsgUpdateAddZoneInput ==
    \E input \in AppInputs :
        Update("UpdateAddZoneInput", "", 0, input, UpdateAddZoneInput(app, input))

MsgNavigateSearchResults ==
    \E d \in Direction :
        Update("NavigateSearchResults", d, 0, <<>>, NavigateSearchResults(app, d))

MsgSelectSearchResult ==
    \E index \in SelectIndices, merge_same_time \in BOOLEAN :
        Update("SelectSearchResult", "", index, <<>>,
               SelectSearchResult(app, index, merge_same_time, now))

MsgConfirmAddZone ==
    \E merge_same_time \in BOOLEAN :
        Update("ConfirmAddZone", "", 0, <<>>, ConfirmAddZone(app, merge_same_time, now))

MsgCancelAddZone == Update("CancelAddZone", "", 0, <<>>, CancelAddZone(app))

MsgRemoveCurrentZone == Update("RemoveCurrentZone", "", 0, <<>>, RemoveCurrentZone(app))

MsgStartRenameZone == Update("StartRenameZone", "", 0, <<>>, StartRenameZone(app))

MsgUpdateRenameInput ==
    \E input \in RenameInputs :
        Update("UpdateRenameInput", "", 0, input, UpdateRenameInput(app, input))

MsgConfirmRename == Update("ConfirmRename", "", 0, <<>>, ConfirmRename(app))

MsgCancelRename == Update("CancelRename", "", 0, <<>>, CancelRename(app))

MsgClearCustomName == Update("ClearCustomName", "", 0, <<>>, ClearCustomName(app))

MsgQuit == Update("Quit", "", 0, <<>>, Quit(app))

NextApp ==
    \/ MsgTick
    \/ MsgScrubTimeline
    \/ MsgScrubTimelineWithShift
    \/ MsgResetToNow
    \/ MsgFineAdjust
    \/ MsgNavigateZone
    \/ MsgToggleTimeFormat
    \/ MsgToggleTimezoneDisplayMode
    \/ MsgToggleDate
    \/ MsgToggleSunTimes
    \/ MsgToggleHelp
    \/ MsgCycleColorTheme
    \/ MsgStartAddZone
    \/ MsgUpdateAddZoneInput
    \/ MsgNavigateSearchResults
    \/ MsgSelectSearchResult
    \/ MsgConfirmAddZone
    \/ MsgCancelAddZone
    \/ MsgRemoveCurrentZone
    \/ MsgStartRenameZone
    \/ MsgUpdateRenameInput
    \/ MsgConfirmRename
    \/ MsgCancelRename
    \/ MsgClearCustomName
    \/ MsgQuit

SpecApp == InitApp /\ [][NextApp]_vars

\* C26: from an App built by from_config, no sequence of messages empties
\* the registry, and RemoveCurrentZone removes the selected entry exactly
\* when more than one entry exists and changes nothing otherwise
C26_RegistryNeverEmpty ==
    /\ Len(app.zones) >= 1
    /\ msg.kind = "RemoveCurrentZone" =>
          IF Len(msg.pre.zones) > 1
          THEN app.zones = RemoveAt(msg.pre.zones, msg.pre.selected_zone_index)
          ELSE app = msg.pre

\* the only entry is selected and RemoveCurrentZone has left the App as it was
C26_Witness ==
    /\ msg.kind = "RemoveCurrentZone"
    /\ Len(msg.pre.zones) = 1
    /\ app = msg.pre

\* RemoveCurrentZone has removed the selected one of two entries
C26_WitnessRemoved ==
    /\ msg.kind = "RemoveCurrentZone"
    /\ Len(msg.pre.zones) = 2
    /\ Len(app.zones) = 1

\* C27: in every state reachable by messages the selection is a row of the
\* registry, selected_zone_index < zone_count, and RemoveCurrentZone of the
\* last row leaves the new last row selected
C27_SelectionInRange ==
    /\ app.selected_zone_index < Len(app.zones)
    /\ (/\ msg.kind = "RemoveCurrentZone"
        /\ Len(msg.pre.zones) > 1
        /\ msg.pre.selected_zone_index = Len(msg.pre.zones) - 1)
       => app.selected_zone_index = Len(app.zones) - 1

\* the last of several rows was selected and has been removed
C27_Witness ==
    /\ msg.kind = "RemoveCurrentZone"
    /\ Len(msg.pre.zones) = 3
    /\ msg.pre.selected_zone_index = 2
    /\ Len(app.zones) = 2
    /\ app.selected_zone_index = 1

\* NavigateZone Down on the last row and Up on the first have left the
\* selection where it was
C27_WitnessStops ==
    /\ msg.kind = "NavigateZone"
    /\ app = msg.pre
    /\ \/ msg.dir = "Down" /\ app.selected_zone_index = Len(app.zones) - 1
       \/ msg.dir = "Up" /\ app.selected_zone_index = 0

\* a configured index of 7 has been clamped to the last of the three default rows
C27_WitnessClamped ==
    /\ nmsgs = 0
    /\ Len(app.zones) = 3
    /\ app.selected_zone_index = 2

\* C28: the add-zone modal and the rename modal are never open together;
\* StartAddZone closes the rename modal and clears its input, StartRenameZone
\* (on a registry with an entry) closes the add modal and clears its input
\* and its search results
C28_ModalsExclusive ==
    /\ ~(app.adding_zone /\ app.renaming_zone)
    /\ msg.kind = "StartAddZone" =>
          /\ app.adding_zone
          /\ ~app.renaming_zone
          /\ app.rename_zone_input = <<>>
    /\ (msg.kind = "StartRenameZone" /\ Len(msg.pre.zones) > 0) =>
          /\ app.renaming_zone
          /\ ~app.adding_zone
          /\ app.add_zone_input = <<>>
          /\ app.zone_search_results = <<>>

\* StartRenameZone with the add modal open on a list of results
C28_Witness ==
    /\ msg.kind = "StartRenameZone"
    /\ msg.pre.adding_zone
    /\ msg.pre.zone_search_results # <<>>
    /\ app.renaming_zone

\* StartAddZone with the rename modal open on a typed label
C28_WitnessAdd ==
    /\ msg.kind = "StartAddZone"
    /\ msg.pre.renaming_zone
    /\ msg.pre.rename_zone_input # <<>>
    /\ app.adding_zone

\* the catalog row behind the k-th label of the results for the text input:
\* the j-th best row of that name, where the k-th label is the j-th with
\* that name
DenotedRow(input, k) ==
    LET names  == Searched(input)
        qlow   == Trim(ToLowercase(input))
        j      == Cardinality({n \in 1..k : names[n] = names[k]})
        rank(c) == Cardinality({d \in RowsNamed(Cities[c].name) :
                      \/ Score(Cities[d], qlow) > Score(Cities[c], qlow)
                      \/ (Score(Cities[d], qlow) = Score(Cities[c], qlow) /\ d < c)}) + 1
    IN  CHOOSE c \in RowsNamed(names[k]) : rank(c) = j

\* the registry holds row c of the catalog: an entry lists the city and is
\* the entry of the city's timezone or shows the same time
HoldsRow(zs, c) ==
    \E k \in 1..Len(zs) :
        /\ Contains(zs[k].cities, Cities[c].name)
        /\ SameTime(zs[k].tz, CityRow(c).timezone, now)

\* C25: a label that search returned, confirmed in the add-zone dialog, adds
\* the city the label denotes; and the text "City, Country" adds the city of
\* that name in that country
C25_LabelAddsItsCity ==
    /\ (/\ msg.kind = "ConfirmAddZone"
        /\ msg.pre.zone_search_results # <<>>
        /\ msg.pre.zone_search_results = Searched(msg.pre.add_zone_input))
       => HoldsRow(app.zones, DenotedRow(msg.pre.add_zone_input,
                                         msg.pre.selected_search_result + 1))
    /\ (/\ msg.kind = "ConfirmAddZone"
        /\ msg.pre.add_zone_input = <<"L","o","n","d","o","n",","," ","C","a","n","a","d","a">>)
       => HoldsRow(app.zones, 2)

----------------------------------------------------------------------------
(* SpecRun: run_app, the event loop around App::update *)

\* TICK_RATE, in milliseconds
TICK_RATE == 1000

\* a Message: its variant and its argument (a Direction, a number or a text)
Message(kind, dir, n, text) == [kind |-> kind, dir |-> dir, n |-> n, text |-> text]

\* Option<Message>::None
NoMessage == Message("None", "", 0, <<>>)

\* the messages with the arguments in use
Messages ==
    {Message(k, "", 0, <<>>) :
        k \in {"Tick", "ResetToNow", "ToggleTimeFormat", "ToggleTimezoneDisplayMode",
               "ToggleDate", "ToggleSunTimes", "ToggleHelp", "CycleColorTheme",
               "StartAddZone", "ConfirmAddZone", "CancelAddZone", "RemoveCurrentZone",
               "StartRenameZone", "ConfirmRename", "CancelRename", "ClearCustomName",
               "Quit"}}
    \cup {Message(k, d, 0, <<>>) :
            k \in {"ScrubTimeline", "ScrubTimelineWithShift", "NavigateZone",
                   "NavigateSearchResults"},
            d \in Direction}
    \cup {Message("FineAdjust", "", m, <<>>) : m \in FineAdjustMinutes}
    \cup {Message("SelectSearchResult", "", index, <<>>) : index \in SelectIndices}
    \cup {Message("UpdateAddZoneInput", "", 0, input) : input \in AppInputs}
    \cup {Message("UpdateRenameInput", "", 0, input) : input \in RenameInputs}

\* App::update: match msg. merge_same_time and Instants[i] are the policy and
\* the Utc::now() of an add, t the Utc::now() of a Tick
update(self, m, merge_same_time, i, t) ==
    CASE m.kind = "Tick" -> Tick(self, t)
      [] m.kind = "ScrubTimeline" -> ScrubTimeline(self, m.dir)
      [] m.kind = "ScrubTimelineWithShift" -> ScrubTimelineWithShift(self, m.dir)
      [] m.kind = "ResetToNow" -> ResetToNow(self)
      [] m.kind = "FineAdjust" -> FineAdjust(self, m.n)
      [] m.kind = "NavigateZone" -> NavigateZone(self, m.dir)
      [] m.kind = "ToggleTimeFormat" -> ToggleTimeFormat(self)
      [] m.kind = "ToggleTimezoneDisplayMode" -> ToggleTimezoneDisplayMode(self)
      [] m.kind = "ToggleDate" -> ToggleDate(self)
      [] m.kind = "ToggleSunTimes" -> ToggleSunTimes(self)
      [] m.kind = "CycleColorTheme" -> CycleColorTheme(self)
      [] m.kind = "ToggleHelp" -> ToggleHelp(self)
      [] m.kind = "StartAddZone" -> StartAddZone(self)
      [] m.kind = "UpdateAddZoneInput" -> UpdateAddZoneInput(self, m.text)
      [] m.kind = "NavigateSearchResults" -> NavigateSearchResults(self, m.dir)
      [] m.kind = "SelectSearchResult" -> SelectSearchResult(self, m.n, merge_same_time, i)
      [] m.kind = "ConfirmAddZone" -> ConfirmAddZone(self, merge_same_time, i)
      [] m.kind = "CancelAddZone" -> CancelAddZone(self)
      [] m.kind = "RemoveCurrentZone" -> RemoveCurrentZone(self)
      [] m.kind = "StartRenameZone" -> StartRenameZone(self)
      [] m.kind = "UpdateRenameInput" -> UpdateRenameInput(self, m.text)
      [] m.kind = "ConfirmRename" -> ConfirmRename(self)
      [] m.kind = "CancelRename" -> CancelRename(self)
      [] m.kind = "ClearCustomName" -> ClearCustomName(self)
      [] m.kind = "Quit" -> Quit(self)

\* a KeyEvent of kind Press: its KeyCode (c is the character of
\* KeyCode::Char) and whether CONTROL and SHIFT are among its modifiers
Key(code, c, ctrl, shift) == [code |-> code, c |-> c, ctrl |-> ctrl, shift |-> shift]

\* the keys pressed
Keys ==
    {Key("Char", c, FALSE, FALSE) : c \in TypedChars \ {"c"}}
    \cup {Key("Char", "c", TRUE, FALSE), Key("Left", "", FALSE, TRUE)}
    \cup {Key(code, "", FALSE, FALSE) :
            code \in {"Backspace", "Enter", "Esc", "Up", "Down", "Left", "Tab"}}

\* char::is_ascii_digit
IsAsciiDigit(c) == c \in {"0", "1", "2", "3", "4", "5", "6", "7", "8", "9"}

\* char::to_digit(10) of a digit
ToDigit(c) ==
    CASE c = "0" -> 0 [] c = "1" -> 1 [] c = "2" -> 2 [] c = "3" -> 3 [] c = "4" -> 4
      [] c = "5" -> 5 [] c = "6" -> 6 [] c = "7" -> 7 [] c = "8" -> 8 [] c = "9" -> 9

\* String::pop
Pop(str) == IF str = <<>> THEN str ELSE SubSeq(str, 1, Len(str) - 1)

\* the key handling of the rename modal
RenameKeyMessage(self, key) ==
    IF key.code = "Char" /\ key.c = "c" /\ key.ctrl THEN Message("Quit", "", 0, <<>>)
    ELSE IF key.code = "Char"
    THEN Message("UpdateRenameInput", "", 0, Append(self.rename_zone_input, key.c))
    ELSE IF key.code = "Backspace"
    THEN Message("UpdateRenameInput", "", 0, Pop(self.rename_zone_input))
    ELSE IF key.code = "Enter" THEN Message("ConfirmRename", "", 0, <<>>)
    ELSE IF key.code = "Esc" THEN Message("CancelRename", "", 0, <<>>)
    ELSE NoMessage

\* the key handling of the add-zone modal
AddKeyMessage(self, key) ==
    IF key.code = "Char" /\ key.c = "c" /\ key.ctrl THEN Message("Quit", "", 0, <<>>)
    ELSE IF key.code = "Char"
    THEN IF /\ IsAsciiDigit(key.c)
            /\ self.zone_search_results # <<>>
            /\ ToDigit(key.c) >= 1
            /\ ToDigit(key.c) <= Len(self.zone_search_results)
         THEN Message("SelectSearchResult", "", ToDigit(key.c) - 1, <<>>)
         ELSE Message("UpdateAddZoneInput", "", 0, Append(self.add_zone_input, key.c))
    ELSE IF key.code = "Backspace"
    THEN Message("UpdateAddZoneInput", "", 0, Pop(self.add_zone_input))
    ELSE IF key.code = "Up" THEN Message("NavigateSearchResults", "Up", 0, <<>>)
    ELSE IF key.code = "Down" THEN Message("NavigateSearchResults", "Down", 0, <<>>)
    ELSE IF key.code = "Enter" THEN Message("ConfirmAddZone", "", 0, <<>>)
    ELSE IF key.code = "Esc" THEN Message("CancelAddZone", "", 0, <<>>)
    ELSE NoMessage

\* the key handling outside the modals
NormalKeyMessage(key) ==
    IF key.code = "Char" /\ key.c = "q" THEN Message("Quit", "", 0, <<>>)
    ELSE IF key.code = "Char" /\ key.c = "c" /\ key.ctrl THEN Message("Quit", "", 0, <<>>)
    ELSE IF key.code = "Char" /\ key.c = "?" THEN Message("ToggleHelp", "", 0, <<>>)
    ELSE IF key.code = "Char" /\ key.c = "a" THEN Message("StartAddZone", "", 0, <<>>)
    ELSE IF key.code = "Char" /\ key.c = "r" THEN Message("RemoveCurrentZone", "", 0, <<>>)
    ELSE IF key.code = "Char" /\ key.c = "e" THEN Message("StartRenameZone", "", 0, <<>>)
    ELSE IF key.code = "Char" /\ key.c = "E" THEN Message("ClearCustomName", "", 0, <<>>)
    ELSE IF key.code = "Char" /\ key.c = "m" THEN Message("ToggleTimeFormat", "", 0, <<>>)
    ELSE IF key.code = "Char" /\ key.c = "n"
    THEN Message("ToggleTimezoneDisplayMode", "", 0, <<>>)
    ELSE IF key.code = "Char" /\ key.c = "d" THEN Message("ToggleDate", "", 0, <<>>)
    ELSE IF key.code = "Char" /\ key.c = "s" THEN Message("ToggleSunTimes", "", 0, <<>>)
    ELSE IF key.code = "Char" /\ key.c = "c" THEN Message("CycleColorTheme", "", 0, <<>>)
    ELSE IF key.code = "Char" /\ key.c = "t" THEN Message("ResetToNow", "", 0, <<>>)
    ELSE IF (key.code = "Char" /\ key.c = "h") \/ key.code = "Left"
    THEN Message(IF key.shift THEN "ScrubTimelineWithShift" ELSE "ScrubTimeline",
                 "Left", 0, <<>>)
    ELSE IF (key.code = "Char" /\ key.c = "l") \/ key.code = "Right"
    THEN Message(IF key.shift THEN "ScrubTimelineWithShift" ELSE "ScrubTimeline",
                 "Right", 0, <<>>)
    ELSE IF key.code = "Char" /\ key.c = "H"
    THEN Message("ScrubTimelineWithShift", "Left", 0, <<>>)
    ELSE IF key.code = "Char" /\ key.c = "L"
    THEN Message("ScrubTimelineWithShift", "Right", 0, <<>>)
    ELSE IF (key.code = "Char" /\ key.c = "j") \/ key.code = "Down"
    THEN Message("NavigateZone", "Down", 0, <<>>)
    ELSE IF (key.code = "Char" /\ key.c = "k") \/ key.code = "Up"
    THEN Message("NavigateZone", "Up", 0, <<>>)
    ELSE IF key.code = "Char" /\ key.c = "[" THEN Message("FineAdjust", "", -15, <<>>)
    ELSE IF key.code = "Char" /\ key.c = "]" THEN Message("FineAdjust", "", 15, <<>>)
    ELSE IF key.code = "Char" /\ key.c = "{" THEN Message("FineAdjust", "", -60, <<>>)
    ELSE IF key.code = "Char" /\ key.c = "}" THEN Message("FineAdjust", "", 60, <<>>)
    ELSE NoMessage

\* `let message = ...` of run_app for a key press
KeyMessage(self, key) ==
    IF self.show_help THEN Message("ToggleHelp", "", 0, <<>>)
    ELSE IF self.renaming_zone THEN RenameKeyMessage(self, key)
    ELSE IF self.adding_zone THEN AddKeyMessage(self, key)
    ELSE NormalKeyMessage(key)

\* the time (ms) a draw or a wait for an event takes
Delays == {0, 500, 1000}

\* last_tick.elapsed() after d more milliseconds; the loop tells no two
\* values from TICK_RATE on apart
Elapse(elapsed, d) == Min(elapsed + d, TICK_RATE)

\* TICK_RATE.checked_sub(last_tick.elapsed()).unwrap_or_else(|| Duration::from_secs(0))
Timeout(elapsed) == IF TICK_RATE >= elapsed THEN TICK_RATE - elapsed ELSE 0

\* a loop that goes on to read the next event after a key message
AfterUpdate_NextEvent(self) == IF self.should_quit THEN "returned" ELSE "draw"

\* a loop without the test of should_quit
AfterUpdate_NoReturn(self) == IF self.panicked THEN "panicked" ELSE "tick"

\* where run_app goes on after app.update(msg): it returns when should_quit
\* is set, else it falls through to the tick test
AfterUpdate(self) ==
    IF self.panicked THEN "panicked"
    ELSE IF self.should_quit THEN "returned"
    ELSE "tick"

\* run_app is entered: last_tick = Instant::now(). events counts the events
\* read; keys_in_iteration and keys_while_due are kept for the properties:
\* the key messages applied in this iteration of the loop, and those applied
\* with last_tick.elapsed() >= TICK_RATE since the last Tick
InitRun ==
    /\ zones = <<>> /\ now = 1 /\ nops = 0 /\ last = NoCall /\ prev = NoCall
    /\ width = 0
    /\ total_hours = -1
    /\ scrub = 0
    /\ wzone = "UTC"
    /\ WidgetIdle
    /\ SearchIdle
    /\ \E config \in Configs, merge_same_time \in BOOLEAN, h \in LocalOffsetHours :
          app = select_local_timezone(
                    from_config(config, merge_same_time, now, StartTime), h, now)
    /\ msg = NoMsg
    /\ nmsgs = 0
    /\ run = [pc |-> "draw", elapsed |-> 0, events |-> 0,
              keys_in_iteration |-> 0, keys_while_due |-> 0]

\* terminal.draw(|f| app.view(f)), the start of an iteration
Draw ==
    /\ run.pc = "draw"
    /\ \E d \in Delays :
          run' = [run EXCEPT !.pc = "poll",
                             !.elapsed = Elapse(run.elapsed, d),
                             !.keys_in_iteration = 0]
    /\ UNCHANGED <<zones, now, nops, last, prev, width, total_hours, windowVars, searchVars,
                   app, msg, nmsgs>>

\* poll(timeout) is true after a wait of w, the event read is the press of
\* a key that has a message: update, then return or go on to the tick test
PollKey ==
    /\ run.pc = "poll"
    /\ run.events < MaxEvents
    /\ \E key \in Keys :
          LET m == KeyMessage(app, key)
          IN  /\ m # NoMessage
              /\ \E merge_same_time \in BOOLEAN :
                    app' = update(app, m, merge_same_time, now, app.current_time)
              /\ msg' = [kind |-> m.kind, dir |-> m.dir, n |-> m.n, text |-> m.text,
                         pre |-> app]
    /\ \E w \in Delays :
          LET elapsed == Elapse(run.elapsed, w)
          IN  /\ w <= Timeout(run.elapsed)
              /\ run' = [run EXCEPT
                           !.pc = AfterUpdate(app'),
                           !.elapsed = elapsed,
                           !.events = run.events + 1,
                           !.keys_in_iteration = run.keys_in_iteration + 1,
                           !.keys_while_due = IF elapsed >= TICK_RATE
                                              THEN run.keys_while_due + 1
                                              ELSE run.keys_while_due]
    /\ UNCHANGED <<zones, now, nops, last, prev, width, total_hours, windowVars, searchVars,
                   nmsgs>>

\* poll(timeout) is true and the event has no message: a key without one
\* in the mode the App is in, a key release, a mouse or resize event
PollOther ==
    /\ run.pc = "poll"
    /\ run.events < MaxEvents
    /\ \E w \in Delays :
          /\ w <= Timeout(run.elapsed)
          /\ run' = [run EXCEPT !.pc = "tick",
                                !.elapsed = Elapse(run.elapsed, w),
                                !.events = run.events + 1]
    /\ UNCHANGED <<zones, now, nops, last, prev, width, total_hours, windowVars, searchVars,
                   app, msg, nmsgs>>

\* poll(timeout) is false: no event for the whole timeout
PollTimeout ==
    /\ run.pc = "poll"
    /\ run' = [run EXCEPT !.pc = "tick",
                          !.elapsed = Elapse(run.elapsed, Timeout(run.elapsed))]
    /\ UNCHANGED <<zones, now, nops, last, prev, width, total_hours, windowVars, searchVars,
                   app, msg, nmsgs>>

\* if last_tick.elapsed() >= TICK_RATE { app.update(Message::Tick); last_tick = now }
TickDue ==
    /\ run.pc = "tick"
    /\ run.elapsed >= TICK_RATE
    /\ \E t \in NowValues :
          app' = update(app, Message("Tick", "", 0, <<>>), FALSE, now, t)
    /\ msg' = [kind |-> "Tick", dir |-> "", n |-> 0, text |-> <<>>, pre |-> app]
    /\ run' = [run EXCEPT !.pc = "draw", !.elapsed = 0, !.keys_while_due = 0]
    /\ UNCHANGED <<zones, now, nops, last, prev, width, total_hours, windowVars, searchVars,
                   nmsgs>>

\* the tick test fails: on to the next iteration
TickNotDue ==
    /\ run.pc = "tick"
    /\ run.elapsed < TICK_RATE
    /\ run' = [run EXCEPT !.pc = "draw"]
    /\ UNCHANGED <<zones, now, nops, last, prev, width, total_hours, windowVars, searchVars,
                   app, msg, nmsgs>>

NextRun ==
    \/ Draw
    \/ PollKey
    \/ PollOther
    \/ PollTimeout
    \/ TickDue
    \/ TickNotDue

SpecRun == InitRun /\ [][NextRun]_vars

\* C29: once Quit has been applied should_quit is true, no message makes it
\* false again, and run_app has returned right after that update: the last
\* message applied is the Quit
C29_QuitIsFinal ==
    /\ msg.kind = "Quit" => app.should_quit
    /\ app.should_quit => (run.pc = "returned" /\ msg.kind = "Quit")
    /\ \A m \in Messages, merge_same_time \in BOOLEAN :
          update([app EXCEPT !.should_quit = TRUE], m, merge_same_time, now,
                 app.current_time).should_quit

\* Ctrl-c in the add-zone modal has ended the loop
C29_Witness ==
    /\ msg.kind = "Quit"
    /\ msg.pre.adding_zone
    /\ app.should_quit
    /\ run.pc = "returned"
    /\ run.events = 2

\* C30: an iteration of the loop applies at most one key message, and with
\* the tick interval elapsed a Tick is applied before a second key message
C30_TickNotStarved ==
    /\ run.keys_in_iteration <= 1
    /\ run.keys_while_due <= 1

\* a key message has been applied with the interval elapsed, in the
\* iteration after another key message; the tick test comes next
C30_Witness ==
    /\ run.pc = "tick"
    /\ run.events >= 2
    /\ run.keys_while_due = 1
    /\ run.elapsed >= TICK_RATE
    /\ msg.kind \notin {"Tick", "none"}

----------------------------------------------------------------------------
(* App::to_config: the configuration written when the program saves *)

\* Tz::to_string on the ids in use
TzToString(tz) ==
    CASE tz = "Europe/London"    -> <<"E","u","r","o","p","e","/","L","o","n","d","o","n">>
      [] tz = "America/Toronto"  -> <<"A","m","e","r","i","c","a","/","T","o","r","o","n","t","o">>
      [] tz = "Asia/Tokyo"       -> <<"A","s","i","a","/","T","o","k","y","o">>
      [] tz = "Europe/Oslo"      -> <<"E","u","r","o","p","e","/","O","s","l","o">>
      [] tz = "America/New_York" -> <<"A","m","e","r","i","c","a","/","N","e","w","_","Y","o","r","k">>
      [] tz = "Europe/Lisbon"    -> <<"E","u","r","o","p","e","/","L","i","s","b","o","n">>
      [] tz = "Europe/Rome"      -> <<"E","u","r","o","p","e","/","R","o","m","e">>
      [] tz = "Europe/Berlin"    -> <<"E","u","r","o","p","e","/","B","e","r","l","i","n">>
      [] OTHER -> <<"U","T","C">>

\* TimeZone::source_city: the city the entry was created for, which is the
\* first of its member cities
source_city(zone) ==
    IF zone.cities = <<>> THEN None ELSE Some(zone.cities[1])

\* the closure of to_config over one zone: the ZoneConfigCompat written for it
ZoneConfigOf(zone) ==
    LET c == FindFirst({r \in 1..Len(Cities) : CityRow(r).timezone = zone.tz})
        city_name == IF source_city(zone).some THEN source_city(zone).v
                     ELSE IF c # 0 THEN Cities[c].name
                     ELSE TzToString(zone.tz)
    IN  [city_name |-> city_name, custom_label |-> zone.custom_label]

\* App::to_config (zones and selected_zone_index; the display fields are
\* copied as they are)
to_config(self) ==
    [zones |-> [k \in 1..Len(self.zones) |-> ZoneConfigOf(self.zones[k])],
     selected_zone_index |-> self.selected_zone_index]

\* the configuration of test_manchester_london_save_load
LondonManchester ==
    [zones |-> << <<"L","o","n","d","o","n">>, <<"M","a","n","c","h","e","s","t","e","r">> >>,
     selected_zone_index |-> 0]

\* the city names a configuration lists
ConfigCities(config) == {config.zones[k].city_name : k \in 1..Len(config.zones)}

\* C31: from_config on the configuration that lists London and Manchester
\* yields two zones, and to_config of that app lists both city names again
C31_SaveLoadKeepsCities ==
    (/\ msg.kind = "none"
     /\ \E merge_same_time \in BOOLEAN :
           app = from_config(LondonManchester, merge_same_time, now, StartTime))
    => /\ Len(app.zones) = 2
       /\ {LondonManchester.zones[1], LondonManchester.zones[2]} \subseteq ConfigCities(to_config(app))

----------------------------------------------------------------------------
(* The order of the registry across a call *)

\* the entry that city c created (c is its first member): its 1-based
\* index in zs, 0 when there is none
EntryAt(zs, c) ==
    FindFirst({k \in 1..Len(zs) : zs[k].cities # <<>> /\ zs[k].cities[1] = c})

\* the indices of the entries whose timezone id no entry of pre has
CreatedBy(pre, zs) ==
    {n \in 1..Len(zs) : \A k \in 1..Len(pre) : pre[k].tz # zs[n].tz}

\* the first cities of the entries of zs whose index is in ks, in registry
\* order
HeadsOf(zs, ks) ==
    LET idx == SelectSeq([k \in 1..Len(zs) |-> k], LAMBDA k : k \in ks)
    IN  [n \in 1..Len(idx) |-> zs[idx[n]].cities[1]]

\* the indices of the entries of zs with h offset hours at instant at
OffsetClass(zs, h, at) == {k \in 1..Len(zs) : utc_offset_hours(zs[k], at) = h}

\* s can be had from t by leaving elements out
RECURSIVE IsSubsequence(_, _)
IsSubsequence(s, t) ==
    IF s = <<>> THEN TRUE
    ELSE IF t = <<>> THEN FALSE
    ELSE IF Head(s) = Head(t) THEN IsSubsequence(Tail(s), Tail(t))
    ELSE IsSubsequence(s, Tail(t))

\* city c is the first member of exactly one entry of zs
HeadsOne(zs, c) ==
    Cardinality({k \in 1..Len(zs) : zs[k].cities # <<>> /\ zs[k].cities[1] = c}) = 1

\* C32: across an add or a reorganize the entries with equal
\* utc_offset_hours (at the instant of the call) keep their relative order,
\* and the entry an add creates stands after every entry of the same offset
\* hours. An add keeps every entry, so the entries of each offset stand
\* after it in the order they had; a reorganize builds the entries anew, and
\* the order is that of the entries a first city tells apart.
C32_StableResort ==
    (last.op \in {"add", "reorganize"}) =>
        /\ (last.op = "add") =>
              \A h \in {utc_offset_hours(last.pre[k], last.at) : k \in 1..Len(last.pre)} :
                  IsSubsequence(HeadsOf(last.pre, OffsetClass(last.pre, h, last.at)),
                                HeadsOf(zones, OffsetClass(zones, h, last.at)))
        /\ (last.op = "reorganize") =>
              \A j, k \in 1..Len(last.pre) :
                  ( /\ j < k
                    /\ utc_offset_hours(last.pre[j], last.at) = utc_offset_hours(last.pre[k], last.at)
                    /\ \A c \in {last.pre[j].cities[1], last.pre[k].cities[1]} :
                          HeadsOne(last.pre, c) /\ HeadsOne(zones, c) )
                  => EntryAt(zones, last.pre[j].cities[1]) < EntryAt(zones, last.pre[k].cities[1])
        /\ (last.op = "add" /\ Len(zones) = Len(last.pre) + 1) =>
              \A n \in CreatedBy(last.pre, zones), k \in 1..Len(zones) :
                  ( /\ k # n
                    /\ utc_offset_hours(zones[k], last.at) = utc_offset_hours(zones[n], last.at) )
                  => k < n

\* an add whose sort moved the new entry to the front of two entries of
\* equal offset, which stand as they stood
C32_Witness ==
    /\ last.op = "add"
    /\ Len(last.pre) = 2
    /\ utc_offset_hours(last.pre[1], last.at) = utc_offset_hours(last.pre[2], last.at)
    /\ Len(zones) = 3
    /\ zones[2] = last.pre[1]
    /\ zones[3] = last.pre[2]

\* an add that created an entry of the offset hours of an entry present
C32_WitnessCreated ==
    /\ last.op = "add"
    /\ Len(zones) = Len(last.pre) + 1
    /\ \E n \in CreatedBy(last.pre, zones), k \in 1..Len(zones) :
          /\ k # n
          /\ utc_offset_hours(zones[k], last.at) = utc_offset_hours(zones[n], last.at)

\* a reorganize that split an entry, with two entries of equal offset that
\* were there before the call and are there after it
C32_WitnessReorganize ==
    /\ last.op = "reorganize"
    /\ Len(zones) > Len(last.pre)
    /\ \E j, k \in 1..Len(last.pre) :
          /\ j < k
          /\ utc_offset_hours(last.pre[j], last.at) = utc_offset_hours(last.pre[k], last.at)
          /\ EntryAt(zones, last.pre[j].cities[1]) # 0
          /\ EntryAt(zones, last.pre[k].cities[1]) # 0

----------------------------------------------------------------------------
(* The scrub instant under ScrubTimeline *)

\* Timelike::minute, second and (in milliseconds) nanosecond of an instant
MinuteOf(t) == (t \div 60000) % 60

SecondOf(t) == (t \div 1000) % 60

MillisOf(t) == t % 1000

\* the instant is an exact hour boundary
OnHour(t) == MinuteOf(t) = 0 /\ SecondOf(t) = 0 /\ MillisOf(t) = 0

\* the hour (counted from the epoch of the model) an instant lies in
HourOf(t) == t \div 3600000

\* C33: ScrubTimeline(Right) moves the scrub instant to the next exact hour
\* boundary strictly after it, ScrubTimeline(Left) to the start of the
\* current hour, or one full hour back from an hour boundary; the move is
\* of more than 0 and at most 1 hour, and the result has minute, second and
\* nanosecond 0
C33_ScrubToHourBoundary ==
    /\ (msg.kind = "ScrubTimeline" /\ msg.dir = "Right") =>
          /\ OnHour(app.timeline_position)
          /\ app.timeline_position > msg.pre.timeline_position
          /\ app.timeline_position - msg.pre.timeline_position <= 3600000
          /\ HourOf(app.timeline_position) = HourOf(msg.pre.timeline_position) + 1
    /\ (msg.kind = "ScrubTimeline" /\ msg.dir = "Left") =>
          /\ OnHour(app.timeline_position)
          /\ app.timeline_position < msg.pre.timeline_position
          /\ msg.pre.timeline_position - app.timeline_position <= 3600000
          /\ IF OnHour(msg.pre.timeline_position)
             THEN msg.pre.timeline_position - app.timeline_position = 3600000
             ELSE HourOf(app.timeline_position) = HourOf(msg.pre.timeline_position)

\* Left from an exact hour boundary, a full hour back
C33_Witness ==
    /\ msg.kind = "ScrubTimeline"
    /\ msg.dir = "Left"
    /\ OnHour(msg.pre.timeline_position)
    /\ app.timeline_position = msg.pre.timeline_position - 3600000

\* Right from 12:34:17.250 to 13:00:00.000
C33_WitnessRight ==
    /\ msg.kind = "ScrubTimeline"
    /\ msg.dir = "Right"
    /\ msg.pre.timeline_position = StartTime
    /\ MillisOf(msg.pre.timeline_position) # 0
    /\ app.timeline_position = 46800000

\* Left from an instant with seconds only (13:00:01.000), to 13:00:00.000
C33_WitnessLeft ==
    /\ msg.kind = "ScrubTimeline"
    /\ msg.dir = "Left"
    /\ MinuteOf(msg.pre.timeline_position) = 0
    /\ SecondOf(msg.pre.timeline_position) # 0
    /\ app.timeline_position = 46800000

----------------------------------------------------------------------------
(* What a Tick leaves alone *)

\* App::render_zone: the TimelineWidget built for a zone, with the two
\* instants it is given
render_zone(self) ==
    [timeline_position |-> self.timeline_position, current_time |-> self.current_time]

\* get_timeline_start and get_timeline_end of a widget, in milliseconds
WindowOf(widget, w) ==
    [start |-> widget.timeline_position - 1000 * HalfWindow(w),
     end   |-> widget.timeline_position + 1000 * HalfWindow(w)]

\* time_to_position of a widget: Duration::num_seconds cuts the differences
\* to whole seconds
ColumnsOf(widget, time, w) ==
    LET win            == WindowOf(widget, w)
        total_duration == TruncDiv(win.end - win.start, 1000)
        time_duration  == TruncDiv(time - win.start, 1000)
    IN  IF total_duration = 0 THEN {0}
        ELSE {Min(p, SaturatingSub(w, 1)) : p \in RoundedColumn(time_duration, total_duration, w)}

\* the widths of the area rendered into
RenderWidths == {2, 97, 120, 201}

\* the instants mapped to columns: the ends of the window, the scrub
\* instant, the clock before and after the Tick, a sixth of the window
RenderInstants(self, t, w) ==
    LET win == WindowOf(render_zone(self), w)
    IN  {win.start, win.end, win.start + 1, self.timeline_position, self.current_time, t,
         win.start + (win.end - win.start) \div 6}

\* the last message
LastMessage == Message(msg.kind, msg.dir, msg.n, msg.text)

\* the fields of the App but current_time
Frame(self) == [f \in DOMAIN self \ {"current_time"} |-> self[f]]

\* C34: a Tick changes current_time and nothing else (scrub instant,
\* registry, selection and modal state stay), the window bounds and the
\* column of every instant are the same before and after it, ResetToNow
\* sets the scrub instant to current_time, and the scrub instant any other
\* message leaves does not depend on current_time
C34_TickChangesClockOnly ==
    /\ msg.kind = "Tick" =>
          /\ Frame(app) = Frame(msg.pre)
          /\ \A w \in RenderWidths :
                /\ WindowOf(render_zone(app), w) = WindowOf(render_zone(msg.pre), w)
                /\ \A t \in RenderInstants(msg.pre, app.current_time, w) :
                      ColumnsOf(render_zone(app), t, w) = ColumnsOf(render_zone(msg.pre), t, w)
    /\ msg.kind = "ResetToNow" => app.timeline_position = msg.pre.current_time
    /\ msg.kind \notin {"none", "ResetToNow"} =>
          \A t \in NowValues, merge_same_time \in BOOLEAN :
              update([msg.pre EXCEPT !.current_time = t], LastMessage, merge_same_time,
                     now, app.current_time).timeline_position = app.timeline_position

\* a Tick with the add-zone dialog open and the scrub instant at the clock:
\* the clock moves on, the scrub instant stays behind
C34_Witness ==
    /\ msg.kind = "Tick"
    /\ msg.pre.adding_zone
    /\ msg.pre.timeline_position = msg.pre.current_time
    /\ app.current_time # msg.pre.current_time
    /\ app.timeline_position # app.current_time
    /\ app.adding_zone

\* ResetToNow after a Tick: the scrub instant moves to the clock
C34_WitnessReset ==
    /\ msg.kind = "ResetToNow"
    /\ msg.pre.timeline_position # msg.pre.current_time
    /\ app.timeline_position = app.current_time

----------------------------------------------------------------------------
(* SpecDialog: the messages of the add-zone dialog, applied to the App *)

\* app.update(message) for a message of the dialog
Dialog(kind, dir, n, text, post) ==
    /\ nmsgs < MaxKeys
    /\ ~app.panicked
    /\ app' = post
    /\ msg' = [kind |-> kind, dir |-> dir, n |-> n, text |-> text, pre |-> app]
    /\ nmsgs' = nmsgs + 1
    /\ UNCHANGED <<zones, now, nops, last, prev, width, total_hours, windowVars, searchVars, run>>

DlgStartAddZone == Dialog("StartAddZone", "", 0, <<>>, StartAddZone(app))

DlgUpdateAddZoneInput ==
    \E input \in AppInputs \cup {<<" ">>} :
        Dialog("UpdateAddZoneInput", "", 0, input, UpdateAddZoneInput(app, input))

DlgNavigateSearchResults ==
    \E d \in Direction :
        Dialog("NavigateSearchResults", d, 0, <<>>, NavigateSearchResults(app, d))

DlgSelectSearchResult ==
    \E index \in SelectIndices :
        Dialog("SelectSearchResult", "", index, <<>>,
               SelectSearchResult(app, index, FALSE, now))

DlgConfirmAddZone == Dialog("ConfirmAddZone", "", 0, <<>>, ConfirmAddZone(app, FALSE, now))

DlgCancelAddZone == Dialog("CancelAddZone", "", 0, <<>>, CancelAddZone(app))

InitDialog ==
    /\ zones = <<>> /\ now = 1 /\ nops = 0 /\ last = NoCall /\ prev = NoCall
    /\ width = 0
    /\ total_hours = -1
    /\ scrub = 0
    /\ wzone = "UTC"
    /\ WidgetIdle
    /\ SearchIdle
    /\ \E config \in Configs : app = from_config(config, FALSE, now, StartTime)
    /\ msg = NoMsg
    /\ nmsgs = 0
    /\ run = <<>>

NextDialog ==
    \/ DlgStartAddZone
    \/ DlgUpdateAddZoneInput
    \/ DlgNavigateSearchResults
    \/ DlgSelectSearchResult
    \/ DlgConfirmAddZone
    \/ DlgCancelAddZone

SpecDialog == InitDialog /\ [][NextDialog]_vars

\* C35: whenever zone_search_results is non-empty selected_search_result is
\* an index into it; UpdateAddZoneInput and StartAddZone set it to 0, Up at
\* index 0 and Down at the last index leave the App as it is, and so does
\* any navigation over an empty result list
C35_SearchSelectionValid ==
    /\ app.zone_search_results # <<>> =>
          app.selected_search_result \in 0..(Len(app.zone_search_results) - 1)
    /\ msg.kind \in {"UpdateAddZoneInput", "StartAddZone"} => app.selected_search_result = 0
    /\ (/\ msg.kind = "NavigateSearchResults"
        /\ \/ msg.pre.zone_search_results = <<>>
           \/ msg.dir = "Up" /\ msg.pre.selected_search_result = 0
           \/ /\ msg.dir = "Down"
              /\ msg.pre.selected_search_result = Len(msg.pre.zone_search_results) - 1)
       => app = msg.pre

\* Down on the last row of a list of several results
C35_Witness ==
    /\ msg.kind = "NavigateSearchResults"
    /\ msg.dir = "Down"
    /\ Len(msg.pre.zone_search_results) > 1
    /\ msg.pre.selected_search_result = Len(msg.pre.zone_search_results) - 1
    /\ app.selected_search_result = msg.pre.selected_search_result

\* Up on the first row, after the selection went down and came back
C35_WitnessUp ==
    /\ msg.kind = "NavigateSearchResults"
    /\ msg.dir = "Up"
    /\ msg.pre.zone_search_results # <<>>
    /\ msg.pre.selected_search_result = 0
    /\ nmsgs > 3

\* a new text typed with the selection on a lower row: back to row 0
C35_WitnessReset ==
    /\ msg.kind = "UpdateAddZoneInput"
    /\ msg.pre.selected_search_result > 0
    /\ app.zone_search_results # <<>>
    /\ app.selected_search_result = 0

\* Down over an empty list
C35_WitnessEmpty ==
    /\ msg.kind = "NavigateSearchResults"
    /\ msg.dir = "Down"
    /\ msg.pre.adding_zone
    /\ msg.pre.add_zone_input # <<>>
    /\ msg.pre.zone_search_results = <<>>

----------------------------------------------------------------------------
(* The cities of the registry *)

\* C36: after any sequence of add, remove and reorganize calls every city
\* name is a member of at most one entry, and no entry lists a city twice
C36_CityInOneEntry ==
    /\ \A a, b \in 1..Len(zones) :
          a # b => Range(zones[a].cities) \cap Range(zones[b].cities) = {}
    /\ \A a \in 1..Len(zones) :
          \A j, k \in 1..Len(zones[a].cities) :
              j # k => zones[a].cities[j] # zones[a].cities[k]

\* the second half alone: no entry lists a city twice
C36_NoRepeatInEntry ==
    \A a \in 1..Len(zones) :
        \A j, k \in 1..Len(zones[a].cities) :
            j # k => zones[a].cities[j] # zones[a].cities[k]

\* the city names that are members of some entry
AllCities(zs) == UNION {Range(zs[k].cities) : k \in 1..Len(zs)}

\* C37: reorganize_zones_for_merge, enabling or disabling, neither loses nor
\* invents cities: the set of member city names is the same before and after
C37_ReorganizeKeepsCities ==
    last.op = "reorganize" => AllCities(zones) = AllCities(last.pre)

\* a merge that coalesced two entries
C37_Witness ==
    /\ last.op = "reorganize"
    /\ last.merge
    /\ Len(zones) < Len(last.pre)
    /\ Cardinality(AllCities(zones)) >= 2

\* a split that made two entries of one
C37_WitnessSplit ==
    /\ last.op = "reorganize"
    /\ ~last.merge
    /\ Len(zones) > Len(last.pre)
    /\ Cardinality(AllCities(zones)) >= 2

\* C38: when reorganize_zones_for_merge(true) returns, every member city of
\* every entry has, by its catalog timezone, the UTC offset (at the instant
\* of the call) of the timezone of the entry it sits in
C38_MergedOffsetsAgree ==
    (last.op = "reorganize" /\ last.merge) =>
        \A k \in 1..Len(zones) :
            \A c \in Range(zones[k].cities) :
                LocalMinusUtc(CatalogTz(c), last.at) = LocalMinusUtc(zones[k].tz, last.at)

\* the same for the calls made at the instant the cities were merged (the
\* clock has not moved since the registry was empty)
C38_AgreeWhileClockStands ==
    (last.op = "reorganize" /\ last.merge /\ last.at = 1) =>
        \A k \in 1..Len(zones) :
            \A c \in Range(zones[k].cities) :
                LocalMinusUtc(CatalogTz(c), last.at) = LocalMinusUtc(zones[k].tz, last.at)

----------------------------------------------------------------------------
(* The scan against the offset changes of the zone *)

\* the events of the scan that stand for the offset change at T: those of a
\* sample at most one hour before it
EventsOf(T) ==
    {k \in 1..Len(dst_scan.events) :
        dst_scan.events[k].t < T /\ T <= dst_scan.events[k].t + 3600}

\* C39: every event of the scan stands for an offset change inside the
\* window [start, end], and every offset change inside the window has
\* exactly one event, of a sample at most one hour before the change
C39_EventsMatchChangesInWindow ==
    dst_scan.done =>
        /\ \A k \in 1..Len(dst_scan.events) :
              \E T \in Transitions(wzone) :
                  /\ WinStart <= T /\ T <= WinEnd
                  /\ k \in EventsOf(T)
        /\ \A T \in Transitions(wzone) :
              (WinStart <= T /\ T <= WinEnd) => Cardinality(EventsOf(T)) = 1

\* C39 as the scan has it: every event stands for an offset change after
\* start and less than an hour after end, and every offset change after
\* start and up to end has exactly one event, of a sample at most one hour
\* before the change; a change at start itself has none
C39_EventsMatchChangesSampled ==
    dst_scan.done =>
        /\ \A k \in 1..Len(dst_scan.events) :
              \E T \in Transitions(wzone) :
                  /\ WinStart < T /\ T < WinEnd + 3600
                  /\ k \in EventsOf(T)
        /\ \A T \in Transitions(wzone) :
              /\ (WinStart < T /\ T <= WinEnd) => Cardinality(EventsOf(T)) = 1
              /\ T = WinStart => EventsOf(T) = {}

\* an event for an offset change past the end of the window
C39_Witness ==
    /\ dst_scan.done
    /\ \E T \in Transitions(wzone) : T > WinEnd /\ EventsOf(T) # {}

\* an offset change at the start of the window, without an event
C39_WitnessAtStart ==
    /\ dst_scan.done
    /\ \E T \in Transitions(wzone) : T = WinStart /\ EventsOf(T) = {}

\* an offset change inside the window with its one event
C39_WitnessInside ==
    /\ dst_scan.done
    /\ \E T \in Transitions(wzone) :
          WinStart < T /\ T <= WinEnd /\ Cardinality(EventsOf(T)) = 1

----------------------------------------------------------------------------
(* SpecBar: the instants of the columns of the timeline bar *)

\* the widths of the bar: narrow, ordinary and wide terminals, and widths
\* whose columns are about two minutes wide and narrower
BarWidths == {2, 3, 5, 10, 80, 96, 97, 120, 201, 336, 337, 400, 2520, 5039, 5040, 5051, 10081}

\* the minutes of column i cut to whole hours
MinutesAtPosition_WholeHours(i, w) ==
    {60 * (((i * get_timeline_hours(w)) \div w) \div 60)}

\* the loop body of get_timeline_display for column i: the values
\* (hours_offset * 60.0) as i64 can take. The exact value is
\* i * total_minutes / width; the cast cuts its fraction. Where the exact
\* value is a whole number and i / width is not an f64, the f64 product may
\* fall just below it and the cast then gives one minute less.
MinutesAtPosition(i, w) ==
    LET total == get_timeline_hours(w)
        exact == (i * total) \div w
    IN  IF (i * total) % w = 0 /\ i > 0 /\ ~ExactQuotient(i, w)
        THEN {exact - 1, exact}
        ELSE {exact}

\* time_at_position of get_timeline_display: the instants column i can stand for
time_at_position(position, i, w) ==
    {get_timeline_start(position, w) + 60 * m : m \in MinutesAtPosition(i, w)}

InitBar ==
    /\ zones = <<>> /\ now = 1 /\ nops = 0 /\ last = NoCall /\ prev = NoCall
    /\ total_hours = -1
    /\ width \in BarWidths
    /\ scrub \in {14 * 86400 + 12 * 3600, 69 * 86400 + 6 * 3600 + 1815}
    /\ wzone = "UTC"
    /\ WidgetIdle
    /\ SearchIdle
    /\ UiIdle

\* one pass of the loop `for i in 0..width` of get_timeline_display: the
\* instant of the next column i, handed to time_to_position
BarColumn ==
    \E i \in {IF probes = <<>> THEN 0 ELSE probes[1].i + 1} :
        /\ i < width
        /\ \E t \in time_at_position(scrub, i, width) :
              \E col \in time_to_position(scrub, t, width) :
                  /\ probes' = <<[t |-> t, col |-> col, i |-> i]>>
                  /\ UNCHANGED <<zones, now, nops, last, prev, width, total_hours, searchVars,
                                 uiVars, scrub, wzone, tl_start, tl_end, detected, dst_scan,
                                 midnights>>

NextBar == BarColumn

SpecBar == InitBar /\ [][NextBar]_vars

\* C40: for every width >= 2 and every column c in 0 .. width - 1 the
\* instant the bar gives to column c can map back to column c through
\* time_to_position
C40_ColumnRoundTrip ==
    \A k \in 1..Len(probes) :
        \E t \in time_at_position(scrub, probes[k].i, width) :
            probes[k].i \in time_to_position(scrub, t, width)

\* C40 for the widths below 5040 (MAX_HOURS half hours), whose columns are
\* more than two minutes wide: the instant of column c maps back to column c
C40_ColumnRoundTripBelowTwoMinutes ==
    \A k \in 1..Len(probes) :
        width < 30 * MAX_HOURS => probes[k].col = probes[k].i

\* column 4321 of a bar of 5039 columns, an instant cut to the minute
C40_Witness ==
    /\ width = 5039
    /\ Len(probes) = 1
    /\ probes[1].i = 4321
    /\ ((probes[1].t - get_timeline_start(scrub, width)) \div 60) * width # probes[1].i * get_timeline_hours(width)
    /\ probes[1].col = 4321

\* a column of a bar of 10 columns whose f64 minutes may come out one short
C40_WitnessShort ==
    /\ width = 10
    /\ Len(probes) = 1
    /\ probes[1].i = 3
    /\ probes[1].t = get_timeline_start(scrub, width) + 60 * 863
    /\ probes[1].col = 3

\* from 5040 columns on an instant can fall into the column before
C40_WitnessWide ==
    /\ width >= 30 * MAX_HOURS
    /\ Len(probes) = 1
    /\ probes[1].col = probes[1].i - 1

====
